---- MODULE Spec2Model ----
(***************************************************************************)
(* Model of the sqlt schema reconciliation: AutoMigrate (the statement by  *)
(* statement variant with the allowTableDeletes gate), the transaction     *)
(* wrapper it runs in, and Verify.  The database is a set of catalog rows  *)
(* (sqlite_master) with the rows of each table; the SQLite statements the  *)
(* code issues are modelled by their effect on that catalog.               *)
(***************************************************************************)
EXTENDS Integers, Sequences, FiniteSets, TLC

VARIABLES
    db,          \* the live database: a set of catalog rows
    pre,         \* the database at BEGIN of the running transaction
    schema,      \* the target DDL stream handed to AutoMigrate / Verify
    allowTableDeletes,
    pc,          \* "idle" | "schema" | "delete" | "done"
    k,           \* position of the schema-statement loop
    processedSchemaObjects,
    rebuiltTables,
    tablesToDropIfDisallowed,
    pending,     \* keys of dbObjects the deletion loop has not visited yet
    result,      \* what the last AutoMigrate call returned
    log,         \* statements sent to the driver by the running / last call
    faulted,     \* the driver failed a call of the running / last AutoMigrate
    run,         \* number of AutoMigrate calls started
    prevResult,  \* what the AutoMigrate call before the last one returned
    verified,    \* result of Verify on the idle database, "none" before it ran
    diffs,       \* planner: what is left of SchemaDifferences.ToDelete / ToCreate
    tableConflicts, \* planner: the conflicts ProcessSchemaDifferences returned
    foreignKeys, \* MigrateFunc: PRAGMA foreign_keys of the connection
    migrateTables,  \* MigrateFunc: the tables restore() swaps for their new_ copies
    fn,          \* MigrateFunc: what the caller's callback does
    restore,     \* MigrateFunc: the value sync.OnceValue holds, "unset" before the call
    txErr,       \* MigrateFunc: the error or panic leaving the transaction callback
    mErrors,     \* MigrateFunc: the rows PRAGMA foreign_key_check returned
    cursor,      \* RowsSeq.rows: the cursor of the query, its rows left and its error
    seqErr,      \* RowsSeq.err
    yielded,     \* the items the running iteration handed to the consumer
    versions,    \* Migrate: the map of migration functions, by what each one does
    applied,     \* Migrate: the keys of the functions called, in order
    reader,      \* ExecTx: what is left to read of the SQL text, as tokens
    buf,         \* ExecTx: the chunks held back for the statement being put together
    sent,        \* ExecTx: the statements handed to tx.Exec, in order
    ctx          \* the context of the call: "live", "cancelled", or "txdone" once
                 \* database/sql has rolled the transaction back on its cancellation

vars == <<db, pre, schema, allowTableDeletes, pc, k, processedSchemaObjects,
          rebuiltTables, tablesToDropIfDisallowed, pending, result,
          log, faulted, run, prevResult, verified, diffs, tableConflicts,
          foreignKeys, migrateTables, fn, restore, txErr, mErrors,
          cursor, seqErr, yielded, versions, applied, reader, buf, sent, ctx>>

(* The variables of the planner variant of AutoMigrate. *)
planVars == <<diffs, tableConflicts>>

(* The variables of MigrateFunc. *)
migVars == <<foreignKeys, migrateTables, fn, restore, txErr, mErrors>>

(* The variables of a RowsSeq. *)
seqVars == <<cursor, seqErr, yielded>>

(* The variables of Migrate. *)
loopVars == <<versions, applied>>

(* The variables of ExecTx. *)
execVars == <<reader, buf, sent>>

-----------------------------------------------------------------------------
(* Bounds of the model. *)
MaxDbObjects == 2
MaxStmts == 2
MaxRuns == 2

-----------------------------------------------------------------------------
(* Names.  SQLite matches identifiers without regard to case and keeps the *)
(* spelling; AutoMigrate keys its maps by strings.ToLower(name).           *)
tempTableNameSuffix == "_temp_reorder_sqlt"

ToLower(n) ==
    CASE n = "T" -> "t"
      [] n = "I" -> "i"
      [] n = "T" \o tempTableNameSuffix -> "t" \o tempTableNameSuffix
      [] OTHER -> n

Col(n, ty) == [name |-> n, type |-> ty]

(* A parsed statement (rsql.Statement); String() of it is its canonical SQL, *)
(* so two statements have the same canonical SQL iff the records are equal.  *)
TableStmt(n, cols) == [type |-> "TABLE", name |-> n, tbl |-> "", def |-> 0, cols |-> cols]
IndexStmt(n, t, d) == [type |-> "INDEX", name |-> n, tbl |-> t, def |-> d, cols |-> <<>>]
ViewStmt(n, d) == [type |-> "VIEW", name |-> n, tbl |-> "", def |-> d, cols |-> <<>>]
TriggerStmt(n, t, d) == [type |-> "TRIGGER", name |-> n, tbl |-> t, def |-> d, cols |-> <<>>]

ColsAB == <<Col("a", "INTEGER"), Col("b", "TEXT")>>
ColsBA == <<Col("b", "TEXT"), Col("a", "INTEGER")>>
ColsIntAB == <<Col("a", "INT"), Col("b", "TEXT")>>
ColsTextAB == <<Col("a", "TEXT"), Col("b", "TEXT")>>

(* The statements a target stream is built from. *)
SchemaStmts ==
    { TableStmt("t", ColsAB), TableStmt("t", ColsBA), TableStmt("t", ColsTextAB),
      TableStmt("u", <<Col("a", "INTEGER")>>),
      IndexStmt("i", "t", 1), IndexStmt("i", "t", 2),
      IndexStmt("u", "t", 1),
      ViewStmt("v", 1),
      TriggerStmt("g", "t", 1) }

(* The objects an initial database is built from: those of a stream, and   *)
(* spellings a user may have typed (INT for INTEGER, another letter case). *)
DbStmts ==
    SchemaStmts \cup
    { TableStmt("t", ColsIntAB), TableStmt("T", ColsAB), IndexStmt("i", "u", 1),
      TableStmt("u", <<Col("a", "TEXT")>>) }

-----------------------------------------------------------------------------
(* The database engine.  A catalog row holds the object's SQL (sql, which  *)
(* parses to the statement), whether the stored text is as typed by a user *)
(* (raw) rather than canonical, and for a table its rows, each a function  *)
(* from column name to value.                                              *)

ColNames(s) == {s.cols[j].name : j \in 1..Len(s.cols)}

Find(d, n) == {r \in d : ToLower(r.sql.name) = ToLower(n)}
FindType(d, ty, n) == {r \in Find(d, n) : r.sql.type = ty}
Dependents(d, n) ==
    {r \in d : r.sql.type \in {"INDEX", "TRIGGER"} /\ ToLower(r.sql.tbl) = ToLower(n)}

NoSuch(ty) ==
    CASE ty = "TABLE" -> "no such table"
      [] ty = "INDEX" -> "no such index"
      [] ty = "VIEW" -> "no such view"
      [] OTHER -> "no such trigger"

Res(e, d) == [err |-> e, db |-> d]

(* CREATE TABLE / INDEX / VIEW / TRIGGER with the canonical text of s. *)
ExecCreate(d, s) ==
    IF Find(d, s.name) # {} THEN Res("already exists", d)
    ELSE IF s.type \in {"INDEX", "TRIGGER"} /\ FindType(d, "TABLE", s.tbl) = {}
         THEN Res("no such table", d)
    ELSE IF s.type = "INDEX"
            /\ \E t \in FindType(d, "TABLE", s.tbl) : ~(ColNames(s) \subseteq ColNames(t.sql))
         THEN Res("no such column", d)
    ELSE Res("", d \cup {[sql |-> s, raw |-> FALSE, rows |-> {}]})

(* DROP <ty> n.  Dropping a table drops its indexes and triggers with it. *)
ExecDrop(d, ty, n) ==
    IF FindType(d, ty, n) = {}
    THEN IF ty \in {"TABLE", "VIEW"} /\ Find(d, n) # {}
              /\ (\E r \in Find(d, n) : r.sql.type \in {"TABLE", "VIEW"})
         THEN Res("use drop of the other kind", d)
         ELSE Res(NoSuch(ty), d)
    ELSE IF ty = "TABLE"
         THEN Res("", (d \ FindType(d, ty, n)) \ Dependents(d, n))
         ELSE Res("", d \ FindType(d, ty, n))

(* ALTER TABLE old RENAME TO new.  The indexes and triggers of the table   *)
(* follow it: their catalog text is rewritten to name the new table.       *)
ExecRename(d, old, new) ==
    IF FindType(d, "TABLE", old) = {} THEN Res("no such table", d)
    ELSE IF Find(d, new) # {} THEN Res("already exists", d)
    ELSE LET moved(r) ==
                 IF r \in FindType(d, "TABLE", old)
                 THEN [r EXCEPT !.sql.name = new]
                 ELSE IF r \in Dependents(d, old)
                      THEN [r EXCEPT !.sql.tbl = new]
                      ELSE r
         IN Res("", {moved(r) : r \in d})

(* INSERT INTO into (cols) SELECT cols FROM from. *)
ExecCopy(d, into, cols, from) ==
    IF FindType(d, "TABLE", into) = {} \/ FindType(d, "TABLE", from) = {}
    THEN Res("no such table", d)
    ELSE LET dst == CHOOSE r \in FindType(d, "TABLE", into) : TRUE
             src == CHOOSE r \in FindType(d, "TABLE", from) : TRUE
             cs == {cols[j] : j \in 1..Len(cols)}
         IN IF ~(cs \subseteq ColNames(dst.sql) /\ cs \subseteq ColNames(src.sql))
            THEN Res("no such column", d)
            ELSE LET copied ==
                         {[c \in ColNames(dst.sql) |->
                               IF c \in cs THEN row[c] ELSE "NULL"] : row \in src.rows}
                 IN Res("", (d \ {dst}) \cup {[dst EXCEPT !.rows = dst.rows \cup copied]})

-----------------------------------------------------------------------------
(* Statement comparison. *)
statementMatchExact == "exact"
statementMatchReorderNeeded == "reorder"
statementMatchNoMatch == "nomatch"

(* Mutant of normalizeTypeName: INT is not folded into INTEGER. *)
normalizeTypeNameNoFold(ty) == ty

normalizeTypeName(ty) == IF ty = "INT" THEN "INTEGER" ELSE ty

(* Mutant of compareTableStatements: the column types are not compared. *)
compareTableStatementsIgnoringTypes(dbStmt, schemaStmt) ==
    IF ColNames(dbStmt) # ColNames(schemaStmt) THEN statementMatchNoMatch
    ELSE IF Len(dbStmt.cols) = Len(schemaStmt.cols)
            /\ \E j \in 1..Len(dbStmt.cols) : dbStmt.cols[j].name # schemaStmt.cols[j].name
         THEN statementMatchReorderNeeded
    ELSE statementMatchExact

(* Mutant of compareTableStatements: a different column order is a        *)
(* mismatch like any other.                                                *)
compareTableStatementsNoReorder(dbStmt, schemaStmt) ==
    IF ColNames(dbStmt) = ColNames(schemaStmt)
       /\ Len(dbStmt.cols) = Len(schemaStmt.cols)
       /\ \A j \in 1..Len(dbStmt.cols) :
              /\ dbStmt.cols[j].name = schemaStmt.cols[j].name
              /\ normalizeTypeName(dbStmt.cols[j].type) = normalizeTypeName(schemaStmt.cols[j].type)
    THEN statementMatchExact
    ELSE statementMatchNoMatch

(* The columns are paired by name; a column on one side only or a type     *)
(* mismatch is a difference; with no difference the order decides.         *)
compareTableStatements(dbStmt, schemaStmt) ==
    LET dbCol(n) == CHOOSE c \in {dbStmt.cols[j] : j \in 1..Len(dbStmt.cols)} : c.name = n
        scCol(n) == CHOOSE c \in {schemaStmt.cols[j] : j \in 1..Len(schemaStmt.cols)} : c.name = n
        extra == ColNames(dbStmt) \ ColNames(schemaStmt)
        missing == ColNames(schemaStmt) \ ColNames(dbStmt)
        typeDiff == {n \in ColNames(dbStmt) \cap ColNames(schemaStmt) :
                        normalizeTypeName(dbCol(n).type) # normalizeTypeName(scCol(n).type)}
    IN IF extra # {} \/ missing # {} \/ typeDiff # {} THEN statementMatchNoMatch
       ELSE IF Len(dbStmt.cols) = Len(schemaStmt.cols)
               /\ \E j \in 1..Len(dbStmt.cols) : dbStmt.cols[j].name # schemaStmt.cols[j].name
            THEN statementMatchReorderNeeded
       ELSE statementMatchExact

(* Mutant of compareStatements: two definitions of an index, view or      *)
(* trigger always match.                                                   *)
compareStatementsByTypeOnly(dbStmt, schemaStmt) ==
    IF dbStmt = schemaStmt THEN statementMatchExact
    ELSE IF dbStmt.type = "TABLE" /\ schemaStmt.type = "TABLE"
         THEN compareTableStatements(dbStmt, schemaStmt)
    ELSE IF dbStmt.type = schemaStmt.type THEN statementMatchExact
    ELSE statementMatchNoMatch

compareStatements(dbStmt, schemaStmt) ==
    IF dbStmt = schemaStmt THEN statementMatchExact
    ELSE IF dbStmt.type = "TABLE" /\ schemaStmt.type = "TABLE"
         THEN compareTableStatements(dbStmt, schemaStmt)
    ELSE statementMatchNoMatch

(* The statements of a stream that are not definitions. *)
DmlTypes == {"SELECT", "INSERT", "UPDATE", "DELETE"}
DmlStmt(ty) == [type |-> ty, name |-> "", tbl |-> "t", def |-> 0, cols |-> <<>>]

(* The type switch without its first case: nothing is passed over. *)
skippedNever(stmt) == FALSE

(* switch stmt.(type) { case *SelectStatement, *InsertStatement,           *)
(* *UpdateStatement, *DeleteStatement: continue }                          *)
skipped(stmt) == stmt.type \in DmlTypes

(* The statements AutoMigrate keeps of the stream it parsed. *)
schemaStmtsInOrder(stream) == SelectSeq(stream, LAMBDA sStmt : ~skipped(sStmt))

getTableNameForDependent(stmt) ==
    IF stmt.type \in {"INDEX", "TRIGGER"} THEN stmt.tbl ELSE ""

-----------------------------------------------------------------------------
(* Statements sent through tx.Exec, and the running result of a handler:   *)
(* the database inside the transaction, the error met, the statement log.  *)
NoStmt == TableStmt("", <<>>)
OpCreate(s) == [op |-> "CREATE", type |-> s.type, name |-> s.name, tbl |-> s.tbl, stmt |-> s, err |-> ""]
OpDrop(ty, n) == [op |-> "DROP", type |-> ty, name |-> n, tbl |-> "", stmt |-> NoStmt, err |-> ""]
OpRename(old, new) == [op |-> "RENAME", type |-> "TABLE", name |-> old, tbl |-> new, stmt |-> NoStmt, err |-> ""]
OpCopy(s, from) == [op |-> "COPY", type |-> "TABLE", name |-> s.name, tbl |-> from, stmt |-> s, err |-> ""]

(* DELETE FROM n. *)
ExecDelete(d, n) ==
    IF FindType(d, "TABLE", n) = {} THEN Res("no such table", d)
    ELSE Res("", {IF r \in FindType(d, "TABLE", n) THEN [r EXCEPT !.rows = {}] ELSE r : r \in d})

(* Mutant of ExecUpdateVersion: the version is raised by two. *)
ExecUpdateVersionByTwo(d) ==
    IF FindType(d, "TABLE", "version") = {} THEN Res("no such table", d)
    ELSE Res("", {IF r \in FindType(d, "TABLE", "version")
                  THEN [r EXCEPT !.rows = {[version |-> x.version + 2] : x \in @}]
                  ELSE r : r \in d})

(* UPDATE version SET version = version + 1. *)
ExecUpdateVersion(d) ==
    IF FindType(d, "TABLE", "version") = {} THEN Res("no such table", d)
    ELSE Res("", {IF r \in FindType(d, "TABLE", "version")
                  THEN [r EXCEPT !.rows = {[version |-> x.version + 1] : x \in @}]
                  ELSE r : r \in d})

OpDelete(n) == [op |-> "DELETE", type |-> "TABLE", name |-> n, tbl |-> "", stmt |-> NoStmt, err |-> ""]
OpUpdateVersion == [op |-> "UPDATE", type |-> "TABLE", name |-> "version", tbl |-> "", stmt |-> NoStmt, err |-> ""]

Run(d, o) ==
    CASE o.op = "CREATE" -> ExecCreate(d, o.stmt)
      [] o.op = "DELETE" -> ExecDelete(d, o.name)
      [] o.op = "UPDATE" -> ExecUpdateVersion(d)
      [] o.op = "DROP" -> ExecDrop(d, o.type, o.name)
      [] o.op = "RENAME" -> ExecRename(d, o.name, o.tbl)
      [] OTHER -> ExecCopy(d, o.name, [j \in 1..Len(o.stmt.cols) |-> o.stmt.cols[j].name], o.tbl)

(* tx.Exec: the driver runs the statement, or fails it (inject); a failed  *)
(* statement leaves the database as it was.  Nothing runs after an error.  *)
Exec(acc, o, inject) ==
    IF acc.err # "" THEN acc
    ELSE LET r == IF inject THEN Res("driver error", acc.db) ELSE Run(acc.db, o)
         IN [db |-> r.db, err |-> r.err, log |-> Append(acc.log, [o EXCEPT !.err = r.err])]

(* The "no such <type>" test applied to the error of a tolerant drop. *)
TolerateNotFound(acc, ty) ==
    IF acc.err = NoSuch(ty) THEN [acc EXCEPT !.err = ""] ELSE acc

-----------------------------------------------------------------------------
(* AutoMigrate: the body of the transaction callback.                      *)

(* dbObjects: the parsed catalog, keyed by lowercased name. *)
DbObjects(d) ==
    [n \in {ToLower(r.sql.name) : r \in d} |->
        (CHOOSE r \in d : ToLower(r.sql.name) = n).sql]

(* The second loop over the stream: a lowercased name met twice. *)
HasDuplicateName(stream) ==
    \E i, j \in 1..Len(stream) : i < j /\ ToLower(stream[i].name) = ToLower(stream[j].name)

Acc(d, l) == [db |-> d, err |-> "", log |-> l]

(* The object is not in the database: create it. *)
CreateNew(sStmt, acc, f) == Exec(acc, OpCreate(sStmt), f = 1)

(* The base table was rebuilt: drop the object, tolerating its absence,    *)
(* and create it again.                                                    *)
ForcedRecreate(sStmt, dStmt, acc, f) ==
    Exec(TolerateNotFound(Exec(acc, OpDrop(dStmt.type, dStmt.name), f = 1), dStmt.type),
         OpCreate(sStmt), f = 2)

(* Mutant of RebuildTableForReorder: the rows are not copied. *)
RebuildTableForReorderWithoutCopy(sStmt, acc, f) ==
    LET tempTableName == sStmt.name \o tempTableNameSuffix
        a1 == Exec(acc, OpRename(sStmt.name, tempTableName), f = 1)
        a2 == Exec(a1, OpCreate(sStmt), f = 2)
        a4 == Exec(a2, OpDrop("TABLE", tempTableName), f = 4)
    IN a4

(* Mutant of RebuildTableForReorder: the temporary table is not dropped. *)
RebuildTableForReorderKeepsTemp(sStmt, acc, f) ==
    LET tempTableName == sStmt.name \o tempTableNameSuffix
        a1 == Exec(acc, OpRename(sStmt.name, tempTableName), f = 1)
        a2 == Exec(a1, OpCreate(sStmt), f = 2)
    IN Exec(a2, OpCopy(sStmt, tempTableName), f = 3)

(* statementMatchReorderNeeded: rename, create, copy, drop.  When the       *)
(* create fails the table is renamed back before the error is returned.    *)
RebuildTableForReorder(sStmt, acc, f) ==
    LET tempTableName == sStmt.name \o tempTableNameSuffix
        a1 == Exec(acc, OpRename(sStmt.name, tempTableName), f = 1)
        a2 == Exec(a1, OpCreate(sStmt), f = 2)
        back == Exec([a2 EXCEPT !.err = ""], OpRename(tempTableName, sStmt.name), FALSE)
        a3 == Exec(a2, OpCopy(sStmt, tempTableName), f = 3)
        a4 == Exec(a3, OpDrop("TABLE", tempTableName), f = 4)
    IN IF a1.err = "" /\ a2.err # "" THEN [back EXCEPT !.err = a2.err] ELSE a4

(* statementMatchNoMatch for anything but two tables: drop the database    *)
(* object and create the schema statement.                                 *)
DropAndCreate(sStmt, dStmt, acc, f) ==
    Exec(Exec(acc, OpDrop(dStmt.type, dStmt.name), f = 1), OpCreate(sStmt), f = 2)

MaxExecsPerStmt == 4

(* Mutant of DropsTableWhenDisallowed: the stream loop has no policy test. *)
DropsTableNeverDisallowed(dStmt, allow) == FALSE

(* The policy test of the stream loop: the object to drop is a table and   *)
(* table deletes are not allowed.                                          *)
DropsTableWhenDisallowed(dStmt, allow) == dStmt.type = "TABLE" /\ ~allow

(* One iteration of the loop over schemaStmtsInOrder.  ret is the error    *)
(* the callback returns from inside the iteration, "" when the loop goes   *)
(* on; skip tells that the iteration ended by the policy's continue.       *)
Iter(acc, ret, skip, rebuilt) == [acc |-> acc, ret |-> ret, skip |-> skip, rebuilt |-> rebuilt]

SchemaStmtBody(sStmt, dbObjects, d, l, rebuilt, allow, f) ==
    LET sNameLower == ToLower(sStmt.name)
        dExistsInDbInitially == sNameLower \in DOMAIN dbObjects
        dStmt == dbObjects[sNameLower]
        sIsTable == sStmt.type = "TABLE"
        dependentTableName == getTableNameForDependent(sStmt)
        forceRecreateDueToDependency ==
            /\ ~sIsTable
            /\ dependentTableName # ""
            /\ ToLower(dependentTableName) \in rebuilt
        acc == Acc(d, l)
        fin(a, rb) == Iter(a, IF a.err # "" THEN "exec error" ELSE "", FALSE,
                           IF a.err # "" THEN rebuilt ELSE rb)
    IN IF ~dExistsInDbInitially
       THEN fin(CreateNew(sStmt, acc, f),
                IF sIsTable THEN rebuilt \cup {sNameLower} ELSE rebuilt)
       ELSE IF forceRecreateDueToDependency
       THEN IF DropsTableWhenDisallowed(dStmt, allow)
            THEN Iter(acc, "", TRUE, rebuilt)
            ELSE fin(ForcedRecreate(sStmt, dStmt, acc, f), rebuilt)
       ELSE LET matchType == compareStatements(dStmt, sStmt)
            IN CASE matchType = statementMatchExact -> Iter(acc, "", FALSE, rebuilt)
                 [] matchType = statementMatchReorderNeeded ->
                      fin(RebuildTableForReorder(sStmt, acc, f), rebuilt \cup {sNameLower})
                 [] OTHER ->
                      IF sIsTable /\ dStmt.type = "TABLE"
                      THEN Iter(acc, "conflict", FALSE, rebuilt)
                      ELSE IF DropsTableWhenDisallowed(dStmt, allow)
                      THEN Iter(acc, "", TRUE, rebuilt)
                      ELSE fin(DropAndCreate(sStmt, dStmt, acc, f),
                               IF sIsTable \/ dStmt.type = "TABLE"
                               THEN rebuilt \cup {sNameLower} ELSE rebuilt)

(* Mutant of DeletionBody: the table is dropped whatever the policy. *)
DeletionBodyIgnoringPolicy(dStmt, d, l, allow, f) ==
    LET a == TolerateNotFound(Exec(Acc(d, l), OpDrop(dStmt.type, dStmt.name), f = 1),
                              dStmt.type)
    IN Iter(a, IF a.err # "" THEN "exec error" ELSE "", FALSE, {})

(* Mutant of DeletionBody: the policy stops the drop of every object. *)
DeletionBodyPolicyForAll(dStmt, d, l, allow, f) ==
    IF ~allow
    THEN Iter(Acc(d, l), "", TRUE, {})
    ELSE LET a == TolerateNotFound(Exec(Acc(d, l), OpDrop(dStmt.type, dStmt.name), f = 1),
                                   dStmt.type)
         IN Iter(a, IF a.err # "" THEN "exec error" ELSE "", FALSE, {})

(* One iteration of the loop over dbObjects, for a key that is not marked  *)
(* processed: the policy's continue for a table, else a tolerant drop.     *)
DeletionBody(dStmt, d, l, allow, f) ==
    IF dStmt.type = "TABLE" /\ ~allow
    THEN Iter(Acc(d, l), "", TRUE, {})
    ELSE LET a == TolerateNotFound(Exec(Acc(d, l), OpDrop(dStmt.type, dStmt.name), f = 1),
                                   dStmt.type)
         IN Iter(a, IF a.err # "" THEN "exec error" ELSE "", FALSE, {})

Injected(l) == \E j \in 1..Len(l) : l[j].err = "driver error"

-----------------------------------------------------------------------------
(* Verify: the read-only check of the database against the stream.  Both   *)
(* of its maps are keyed by the name as spelled.                           *)
VerifyLoop(dbObjectsMap, stream) ==
    LET bad(j) == /\ ~skipped(stream[j])
                  /\ \/ stream[j].name \notin DOMAIN dbObjectsMap
                     \/ compareStatements(dbObjectsMap[stream[j].name], stream[j])
                           # statementMatchExact
        firstBad == CHOOSE j \in 1..Len(stream) : bad(j) /\ \A i \in 1..(j - 1) : ~bad(i)
    IN IF \A j \in 1..Len(stream) : ~bad(j) THEN ""
       ELSE IF stream[firstBad].name \notin DOMAIN dbObjectsMap
            THEN "not found in database"
       ELSE "schema mismatch"

(* Mutant of Verify: the objects only the database holds are not looked for. *)
VerifyWithoutExtraCheck(d, stream) ==
    LET dbObjectsMap == [n \in {r.sql.name : r \in d} |->
                            (CHOOSE r \in d : r.sql.name = n).sql]
        e == VerifyLoop(dbObjectsMap, stream)
    IN IF e # "" THEN e ELSE "ok"

Verify(d, stream) ==
    LET dbObjectsMap == [n \in {r.sql.name : r \in d} |->
                            (CHOOSE r \in d : r.sql.name = n).sql]
        verifiedDbObjects == {stream[j].name : j \in {i \in 1..Len(stream) : ~skipped(stream[i])}}
        e == VerifyLoop(dbObjectsMap, stream)
    IN IF e # "" THEN e
       ELSE IF DOMAIN dbObjectsMap \subseteq verifiedDbObjects THEN "ok"
       ELSE "not in schema"

-----------------------------------------------------------------------------
(* Initial states: a database a user built, a target stream, a policy. *)
InitRow(s) ==
    [sql |-> s, raw |-> TRUE,
     rows |-> IF s.type = "TABLE" THEN {[c \in ColNames(s) |-> c \o "1"]} ELSE {}]

WellFormedDb(objs) ==
    /\ \A x, y \in objs : ToLower(x.name) = ToLower(y.name) => x = y
    /\ \A x \in objs : x.type \in {"INDEX", "TRIGGER"} =>
           \E y \in objs : y.type = "TABLE" /\ ToLower(y.name) = ToLower(x.tbl)

InitDbs ==
    {{InitRow(x) : x \in objs} :
        objs \in {o \in SUBSET DbStmts : Cardinality(o) <= MaxDbObjects /\ WellFormedDb(o)}}

Streams == UNION {[1..n -> SchemaStmts] : n \in 0..MaxStmts}

(* No query was made: RowsSeq.rows is nil. *)
NoCursor == [state |-> "nil", left |-> 0, lasterr |-> ""]

(* MigrateFunc is not running: no callback, nothing in flight. *)
NilErr == [kind |-> "nil", value |-> ""]
NoCallback ==
    [rebuild |-> {}, dropsColumn |-> FALSE, orphan |-> FALSE, callsRestore |-> 0,
     outcome |-> "nil"]

InitWith(streams) ==
    /\ db \in InitDbs
    /\ schema \in streams
    /\ allowTableDeletes \in BOOLEAN
    /\ pre = db
    /\ pc = "idle"
    /\ k = 1
    /\ processedSchemaObjects = {}
    /\ rebuiltTables = {}
    /\ tablesToDropIfDisallowed = <<>>
    /\ pending = {}
    /\ result = "none"
    /\ log = <<>>
    /\ diffs = [ToDelete |-> {}, ToCreate |-> {}]
    /\ tableConflicts = <<>>
    /\ faulted = FALSE
    /\ run = 0
    /\ prevResult = "none"
    /\ verified = "none"
    /\ foreignKeys = TRUE
    /\ migrateTables = <<>>
    /\ fn = NoCallback
    /\ restore = "unset"
    /\ txErr = NilErr
    /\ mErrors = {}
    /\ cursor = NoCursor
    /\ seqErr = ""
    /\ yielded = 0
    /\ ctx = "live"
    /\ versions = <<>>
    /\ applied = <<>>
    /\ reader = <<>>
    /\ buf = <<>>
    /\ sent = <<>>

Init == InitWith(Streams)

-----------------------------------------------------------------------------
(* Mutants of Rollback: the error path commits; only the policy error     *)
(* commits.                                                                *)
RollbackCommits(err) ==
    /\ db' = db
    /\ result' = err
    /\ pc' = "done"

RollbackCommitsOnPolicyError(err) ==
    /\ db' = IF err \in {"TableDeletionNotAllowed", "conflict"} THEN db ELSE pre
    /\ result' = err
    /\ pc' = "done"

(* transaction: the callback returned err, so the transaction is rolled    *)
(* back and err is what the caller gets.                                   *)
Rollback(err) ==
    /\ db' = pre
    /\ result' = err
    /\ pc' = "done"

(* The call of AutoMigrate up to the first loop over the stream: BEGIN,    *)
(* the catalog read, the parse of the stream and the duplicate check.  A   *)
(* call repeated after an error starts from the same database and repeats  *)
(* the call before it, so only a call after a success is followed up.      *)
AutoMigrateBegin ==
    /\ UNCHANGED ctx
    /\ UNCHANGED loopVars
    /\ UNCHANGED execVars
    /\ UNCHANGED seqVars
    /\ UNCHANGED migVars
    /\ pc \in {"idle", "done"}
    /\ run < MaxRuns
    /\ run > 0 => result = "ok"
    /\ run' = run + 1
    /\ prevResult' = result
    /\ verified' = "none"
    /\ pre' = db
    /\ log' = <<>>
    /\ k' = 1
    /\ processedSchemaObjects' = {}
    /\ rebuiltTables' = {}
    /\ tablesToDropIfDisallowed' = <<>>
    /\ pending' = DOMAIN DbObjects(db)
    /\ UNCHANGED <<schema, allowTableDeletes>>
    /\ UNCHANGED planVars
    /\ \E masterRowsFails \in BOOLEAN :
          /\ faulted' = masterRowsFails
          /\ IF masterRowsFails
             THEN Rollback("masterRows error")
             ELSE IF HasDuplicateName(schemaStmtsInOrder(schema))
             THEN Rollback("duplicate object name")
             ELSE /\ db' = db
                  /\ result' = "running"
                  /\ pc' = IF Len(schemaStmtsInOrder(schema)) = 0 THEN "delete" ELSE "schema"

(* The conflict error of the stream loop: the one table it was met on. *)
SchemaConflictError(sStmt) == [ObjectName |-> sStmt.name, ObjectType |-> "TABLE"]

(* One iteration of the loop over the stream. *)
AutoMigrateSchemaStmt ==
    /\ UNCHANGED ctx
    /\ UNCHANGED loopVars
    /\ UNCHANGED execVars
    /\ UNCHANGED seqVars
    /\ UNCHANGED migVars
    /\ pc = "schema"
    /\ \E f \in 0..MaxExecsPerStmt :
          LET sStmt == schemaStmtsInOrder(schema)[k]
              sNameLower == ToLower(sStmt.name)
              out == SchemaStmtBody(sStmt, DbObjects(pre), db, log, rebuiltTables,
                                    allowTableDeletes, f)
          IN /\ (f > 0) = Injected(out.acc.log)
             /\ log' = out.acc.log
             /\ faulted' = (faulted \/ f > 0)
             /\ rebuiltTables' = out.rebuilt
             /\ processedSchemaObjects' =
                    IF out.skip THEN processedSchemaObjects \ {sNameLower}
                    ELSE processedSchemaObjects \cup {sNameLower}
             /\ tablesToDropIfDisallowed' =
                    IF out.skip
                    THEN Append(tablesToDropIfDisallowed, DbObjects(pre)[sNameLower].name)
                    ELSE tablesToDropIfDisallowed
             /\ IF out.ret # ""
                THEN /\ Rollback(out.ret)
                     /\ k' = k
                ELSE /\ db' = out.acc.db
                     /\ result' = result
                     /\ k' = k + 1
                     /\ pc' = IF k = Len(schemaStmtsInOrder(schema)) THEN "delete" ELSE "schema"
    /\ tableConflicts' =
           IF \E f \in 0..MaxExecsPerStmt :
                  SchemaStmtBody(schemaStmtsInOrder(schema)[k], DbObjects(pre), db, log, rebuiltTables,
                                 allowTableDeletes, f).ret = "conflict"
           THEN <<SchemaConflictError(schemaStmtsInOrder(schema)[k])>>
           ELSE tableConflicts
    /\ UNCHANGED <<pre, schema, allowTableDeletes, pending, run, prevResult, verified,
                   diffs>>

(* One iteration of the loop over dbObjects; Go visits the keys of a map   *)
(* in no fixed order.  Keys marked processed are passed over.              *)
AutoMigrateDeletion ==
    /\ UNCHANGED ctx
    /\ UNCHANGED loopVars
    /\ UNCHANGED execVars
    /\ UNCHANGED seqVars
    /\ UNCHANGED migVars
    /\ pc = "delete"
    /\ \E dNameLower \in pending \ processedSchemaObjects :
       \E f \in 0..1 :
          LET dStmt == DbObjects(pre)[dNameLower]
              out == DeletionBody(dStmt, db, log, allowTableDeletes, f)
          IN /\ (f > 0) = Injected(out.acc.log)
             /\ log' = out.acc.log
             /\ faulted' = (faulted \/ f > 0)
             /\ pending' = pending \ {dNameLower}
             /\ tablesToDropIfDisallowed' =
                    IF out.skip THEN Append(tablesToDropIfDisallowed, dStmt.name)
                    ELSE tablesToDropIfDisallowed
             /\ IF out.ret # ""
                THEN Rollback(out.ret)
                ELSE /\ db' = out.acc.db
                     /\ result' = result
                     /\ pc' = pc
    /\ UNCHANGED <<pre, schema, allowTableDeletes, k, processedSchemaObjects,
                   rebuiltTables, run, prevResult, verified>>
    /\ UNCHANGED planVars

(* The end of the callback and of the transaction: the policy error, or    *)
(* nil and COMMIT; a COMMIT the driver fails leaves nothing committed.     *)
AutoMigrateReturn ==
    /\ UNCHANGED ctx
    /\ UNCHANGED loopVars
    /\ UNCHANGED execVars
    /\ UNCHANGED seqVars
    /\ UNCHANGED migVars
    /\ pc = "delete"
    /\ pending \ processedSchemaObjects = {}
    /\ IF Len(tablesToDropIfDisallowed) > 0
       THEN /\ Rollback("TableDeletionNotAllowed")
            /\ faulted' = faulted
       ELSE \E commitFails \in BOOLEAN :
               IF commitFails
               THEN /\ Rollback("commit error")
                    /\ faulted' = TRUE
               ELSE /\ db' = db
                    /\ result' = "ok"
                    /\ pc' = "done"
                    /\ faulted' = faulted
    /\ UNCHANGED <<pre, schema, allowTableDeletes, k, processedSchemaObjects,
                   rebuiltTables, tablesToDropIfDisallowed, pending, log, run,
                   prevResult, verified>>
    /\ UNCHANGED planVars

(* Verify called on the database while no migration runs. *)
VerifyCall ==
    /\ UNCHANGED ctx
    /\ UNCHANGED loopVars
    /\ UNCHANGED execVars
    /\ UNCHANGED seqVars
    /\ UNCHANGED migVars
    /\ pc \in {"idle", "done"}
    /\ verified = "none"
    /\ verified' = Verify(db, schema)
    /\ UNCHANGED <<db, pre, schema, allowTableDeletes, pc, k, processedSchemaObjects,
                   rebuiltTables, tablesToDropIfDisallowed, pending, result, log,
                   faulted, run, prevResult>>
    /\ UNCHANGED planVars

Next ==
    \/ AutoMigrateBegin
    \/ AutoMigrateSchemaStmt
    \/ AutoMigrateDeletion
    \/ AutoMigrateReturn
    \/ VerifyCall

Spec == Init /\ [][Next]_vars

(* The same calls on target streams that hold statements other than        *)
(* definitions, before, between and after the definitions.                 *)
MixedStreams == UNION {[1..n -> SchemaStmts \cup {DmlStmt(ty) : ty \in DmlTypes}] : n \in 0..MaxStmts}

InitStream == InitWith(MixedStreams)

SpecStream == InitStream /\ [][Next]_vars

-----------------------------------------------------------------------------
(* Cancellation of the context AutoMigrate is called with.  transaction()   *)
(* hands ctx to db.BeginTxx only: database/sql watches it and rolls the     *)
(* transaction back once it is done.  txWrapper.Exec passes no context, so  *)
(* a statement is refused only after that rollback, with ErrTxDone; Commit  *)
(* looks at the context of the transaction first.                           *)
ErrCanceled == "context canceled"
ErrTxDone == "sql: transaction has already been committed or rolled back"

amVars == <<pre, schema, allowTableDeletes, k, processedSchemaObjects, rebuiltTables,
            tablesToDropIfDisallowed, pending, faulted, run, prevResult, verified>>

(* The ROLLBACK database/sql sends for a cancelled transaction. *)
OpRollback == [op |-> "ROLLBACK", type |-> "", name |-> "", tbl |-> "", stmt |-> NoStmt, err |-> ""]

(* The caller cancels ctx while the callback of AutoMigrate runs. *)
CancelContext ==
    /\ UNCHANGED loopVars
    /\ UNCHANGED execVars
    /\ ctx = "live"
    /\ pc \in {"schema", "delete"}
    /\ ctx' = "cancelled"
    /\ UNCHANGED <<db, pc, result, log>>
    /\ UNCHANGED amVars
    /\ UNCHANGED planVars
    /\ UNCHANGED migVars
    /\ UNCHANGED seqVars

(* database/sql, on ctx.Done(): the transaction is rolled back. *)
awaitDone ==
    /\ UNCHANGED loopVars
    /\ UNCHANGED execVars
    /\ ctx = "cancelled"
    /\ pc \in {"schema", "delete"}
    /\ ctx' = "txdone"
    /\ db' = pre
    /\ log' = Append(log, OpRollback)
    /\ UNCHANGED <<pc, result>>
    /\ UNCHANGED amVars
    /\ UNCHANGED planVars
    /\ UNCHANGED migVars
    /\ UNCHANGED seqVars

(* BEGIN and the catalog read, on a context that is not cancelled. *)
AutoMigrateBeginLive ==
    /\ ctx = "live"
    /\ AutoMigrateBegin

(* An iteration of either loop that database/sql does not refuse: while    *)
(* the transaction is open tx.Exec works whatever ctx is, after the        *)
(* rollback only an iteration that calls no tx.Exec goes through.          *)
AutoMigrateSchemaStmtUnrefused ==
    /\ AutoMigrateSchemaStmt
    /\ ctx = "txdone" => log' = log

AutoMigrateDeletionUnrefused ==
    /\ AutoMigrateDeletion
    /\ ctx = "txdone" => log' = log

(* An iteration of either loop after the rollback, when it calls tx.Exec:  *)
(* nothing is sent, the callback returns the wrapped ErrTxDone, and        *)
(* tx.Rollback() of transaction() answers ErrTxDone as well.               *)
AutoMigrateExecAfterTxDone ==
    /\ UNCHANGED loopVars
    /\ UNCHANGED execVars
    /\ ctx = "txdone"
    /\ \/ /\ pc = "schema"
          /\ SchemaStmtBody(schemaStmtsInOrder(schema)[k], DbObjects(pre), db, log, rebuiltTables,
                            allowTableDeletes, 0).acc.log # log
       \/ /\ pc = "delete"
          /\ \E dNameLower \in pending \ processedSchemaObjects :
                DeletionBody(DbObjects(pre)[dNameLower], db, log, allowTableDeletes, 0).acc.log # log
    /\ Rollback(ErrTxDone)
    /\ UNCHANGED <<log, ctx>>
    /\ UNCHANGED amVars
    /\ UNCHANGED planVars
    /\ UNCHANGED migVars
    /\ UNCHANGED seqVars

(* The end of the callback on a live context. *)
AutoMigrateReturnLive ==
    /\ ctx = "live"
    /\ AutoMigrateReturn

(* The end of the callback on a cancelled context: the policy error, or    *)
(* nil and tx.Commit(), which commits nothing and answers ctx.Err(), or    *)
(* ErrTxDone when the rollback was made already.                           *)
AutoMigrateReturnCancelled ==
    /\ UNCHANGED loopVars
    /\ UNCHANGED execVars
    /\ ctx # "live"
    /\ pc = "delete"
    /\ pending \ processedSchemaObjects = {}
    /\ IF Len(tablesToDropIfDisallowed) > 0
       THEN Rollback("TableDeletionNotAllowed")
       ELSE Rollback(IF ctx = "txdone" THEN ErrTxDone ELSE ErrCanceled)
    /\ UNCHANGED <<log, ctx>>
    /\ UNCHANGED amVars
    /\ UNCHANGED planVars
    /\ UNCHANGED migVars
    /\ UNCHANGED seqVars

NextCancel ==
    \/ AutoMigrateBeginLive
    \/ AutoMigrateSchemaStmtUnrefused
    \/ AutoMigrateDeletionUnrefused
    \/ AutoMigrateReturnLive
    \/ CancelContext
    \/ awaitDone
    \/ AutoMigrateExecAfterTxDone
    \/ AutoMigrateReturnCancelled

SpecCancel == Init /\ [][NextCancel]_vars

-----------------------------------------------------------------------------
(* The planner variant of AutoMigrate: both schemas are read into maps by   *)
(* object type, the differences are identified and processed, and only a    *)
(* conflict-free plan is executed, deletions first, in one transaction.     *)

(* A SchemaDefinition: four maps keyed by the name as spelled, here the     *)
(* set of their entries.  A statement whose type and name were met before   *)
(* replaces the entry.                                                     *)
ParseSchemaReader(stream) ==
    {stream[j] : j \in {i \in 1..Len(stream) :
        ~\E l \in (i + 1)..Len(stream) :
            stream[l].type = stream[i].type /\ stream[l].name = stream[i].name}}

FetchDBSchema(d) == {r.sql : r \in d}

InSchema(def, s) == \E x \in def : x.type = s.type /\ x.name = s.name

(* Mutant of IdentifySchemaDifferences: the elements are matched by name  *)
(* alone, whatever their types.                                            *)
IdentifySchemaDifferencesByName(desiredSchema, currentSchema) ==
    [ToCreate |-> {s \in desiredSchema : ~\E c \in currentSchema : c.name = s.name},
     ToDelete |-> {c \in currentSchema : ~\E s \in desiredSchema : s.name = c.name},
     ToCompare |-> {p \in desiredSchema \X currentSchema : p[1].name = p[2].name}]

IdentifySchemaDifferences(desiredSchema, currentSchema) ==
    [ToCreate |-> {s \in desiredSchema : ~InSchema(currentSchema, s)},
     ToDelete |-> {c \in currentSchema : ~InSchema(desiredSchema, c)},
     ToCompare |-> {p \in desiredSchema \X currentSchema :
                       p[1].type = p[2].type /\ p[1].name = p[2].name}]

(* TableDefinition.PrimaryKey and .UniqueConstraints: the columns of the   *)
(* table-level PRIMARY KEY in the order written, and the columns of each   *)
(* table-level UNIQUE constraint by constraint name.                       *)
PrimaryKey(t) == IF "pk" \in DOMAIN t THEN t.pk ELSE <<>>
UniqueConstraints(t) == IF "uniq" \in DOMAIN t THEN t.uniq ELSE [n \in {} |-> <<>>]
IsPrimaryKey(t, n) == \E j \in 1..Len(PrimaryKey(t)) : PrimaryKey(t)[j] = n

(* The code that runs: same length and the same string at every index. *)
compareStringSlicesEquivalent(a, b) ==
    Len(a) = Len(b) /\ \A i \in 1..Len(a) : a[i] = b[i]

(* The first difference met: column by column in declared order, then the  *)
(* table-level primary key, then the unique constraints; "" when there is  *)
(* none.  (The loop over the constraint names is a loop over a map; the    *)
(* definitions compared here have at most one constraint each.)            *)
CompareTableDefinitions(desired, current) ==
    IF Len(desired.cols) # Len(current.cols) THEN "ColumnCountMismatch"
    ELSE LET nameDiffers(j) == desired.cols[j].name # current.cols[j].name
             typeDiffers(j) == desired.cols[j].type # current.cols[j].type
             pkDiffers(j) == IsPrimaryKey(desired, desired.cols[j].name)
                                # IsPrimaryKey(current, current.cols[j].name)
             differs(j) == nameDiffers(j) \/ typeDiffers(j) \/ pkDiffers(j)
             dU == UniqueConstraints(desired)
             cU == UniqueConstraints(current)
         IN IF \E j \in 1..Len(desired.cols) : differs(j)
            THEN LET j == CHOOSE i \in 1..Len(desired.cols) :
                              differs(i) /\ \A h \in 1..(i - 1) : ~differs(h)
                 IN IF nameDiffers(j) THEN "ColumnNameMismatch"
                    ELSE IF typeDiffers(j) THEN "ColumnTypeMismatch"
                    ELSE "ColumnPrimaryKeyMismatch"
            ELSE IF ~compareStringSlicesEquivalent(PrimaryKey(desired), PrimaryKey(current))
            THEN "PrimaryKeyMismatch"
            ELSE IF Cardinality(DOMAIN dU) # Cardinality(DOMAIN cU)
            THEN "UniqueConstraintCountMismatch"
            ELSE IF \E n \in DOMAIN dU : n \notin DOMAIN cU
            THEN "MissingUniqueConstraint"
            ELSE IF \E n \in DOMAIN dU : ~compareStringSlicesEquivalent(dU[n], cU[n])
            THEN "UniqueConstraintMismatch"
            ELSE IF \E n \in DOMAIN cU : n \notin DOMAIN dU
            THEN "ExtraUniqueConstraint"
            ELSE ""

(* fmt.Sprintf("%v", ...) of a list of strings and of a boolean. *)
RECURSIVE JoinSpace(_)
JoinSpace(list) ==
    IF Len(list) = 0 THEN ""
    ELSE IF Len(list) = 1 THEN list[1]
    ELSE list[1] \o " " \o JoinSpace(Tail(list))
SprintList(list) == "[" \o JoinSpace(list) \o "]"
SprintBool(b) == IF b THEN "true" ELSE "false"

(* The column the per-column loop stops at: the first whose name, type or  *)
(* primary-key flag differs.                                               *)
FirstDifferingColumn(desired, current) ==
    CHOOSE i \in 1..Len(desired.cols) :
        LET differs(j) ==
                \/ desired.cols[j].name # current.cols[j].name
                \/ desired.cols[j].type # current.cols[j].type
                \/ IsPrimaryKey(desired, desired.cols[j].name)
                       # IsPrimaryKey(current, current.cols[j].name)
        IN differs(i) /\ \A h \in 1..(i - 1) : ~differs(h)

(* ExpectedValue and ActualValue of the conflict CompareTableDefinitions   *)
(* returns: of the desired definition and of the current one, in the form  *)
(* the code prints them.                                                   *)
ExpectedValueOfCurrent(desired, current) ==
    IF CompareTableDefinitions(desired, current) = "ColumnCountMismatch"
    THEN ToString(Len(current.cols))
    ELSE ""
ExpectedValue(desired, current) ==
    LET ty == CompareTableDefinitions(desired, current)
    IN CASE ty = "ColumnCountMismatch" -> ToString(Len(desired.cols))
         [] ty = "ColumnNameMismatch" ->
                desired.cols[FirstDifferingColumn(desired, current)].name
         [] ty = "ColumnTypeMismatch" ->
                desired.cols[FirstDifferingColumn(desired, current)].type
         [] ty = "ColumnPrimaryKeyMismatch" ->
                SprintBool(IsPrimaryKey(desired,
                    desired.cols[FirstDifferingColumn(desired, current)].name))
         [] ty = "PrimaryKeyMismatch" -> SprintList(PrimaryKey(desired))
         [] ty = "UniqueConstraintCountMismatch" ->
                ToString(Cardinality(DOMAIN UniqueConstraints(desired)))
         [] ty = "MissingUniqueConstraint" -> "Exists"
         [] ty = "UniqueConstraintMismatch" ->
                LET dU == UniqueConstraints(desired)
                    cU == UniqueConstraints(current)
                IN SprintList(dU[CHOOSE n \in DOMAIN dU :
                                     ~compareStringSlicesEquivalent(dU[n], cU[n])])
         [] ty = "ExtraUniqueConstraint" -> "Not Found"
         [] OTHER -> ""
ActualValue(desired, current) ==
    LET ty == CompareTableDefinitions(desired, current)
    IN CASE ty = "ColumnCountMismatch" -> ToString(Len(current.cols))
         [] ty = "ColumnNameMismatch" ->
                current.cols[FirstDifferingColumn(desired, current)].name
         [] ty = "ColumnTypeMismatch" ->
                current.cols[FirstDifferingColumn(desired, current)].type
         [] ty = "ColumnPrimaryKeyMismatch" ->
                SprintBool(IsPrimaryKey(current,
                    current.cols[FirstDifferingColumn(desired, current)].name))
         [] ty = "PrimaryKeyMismatch" -> SprintList(PrimaryKey(current))
         [] ty = "UniqueConstraintCountMismatch" ->
                ToString(Cardinality(DOMAIN UniqueConstraints(current)))
         [] ty = "MissingUniqueConstraint" -> "Not Found"
         [] ty = "UniqueConstraintMismatch" ->
                LET dU == UniqueConstraints(desired)
                    cU == UniqueConstraints(current)
                IN SprintList(cU[CHOOSE n \in DOMAIN dU :
                                     ~compareStringSlicesEquivalent(dU[n], cU[n])])
         [] ty = "ExtraUniqueConstraint" -> "Exists"
         [] OTHER -> ""

(* The conflicts of the tables to compare, and the plan with the changed   *)
(* indexes, views and triggers scheduled for a drop and a create.          *)
ProcessSchemaDifferences(d) ==
    LET changed == {p \in d.ToCompare : p[1].type # "TABLE" /\ p[1] # p[2]}
    IN [conflicts |->
            {[ElementName |-> p[1].name,
              ConflictType |-> CompareTableDefinitions(p[1], p[2]),
              ExpectedValue |-> ExpectedValue(p[1], p[2]),
              ActualValue |-> ActualValue(p[1], p[2])] :
                p \in {q \in d.ToCompare :
                          q[1].type = "TABLE" /\ CompareTableDefinitions(q[1], q[2]) # ""}},
        ToDelete |-> d.ToDelete \cup {p[2] : p \in changed},
        ToCreate |-> d.ToCreate \cup {p[1] : p \in changed}]

(* The orders in which a loop over a Go map can visit the elements of S. *)
Orders(S) ==
    {f \in [1..Cardinality(S) -> S] : \A x \in S : \E j \in 1..Cardinality(S) : f[j] = x}

(* DROP <type> IF EXISTS: the absence of the object is no error. *)
ExecIfExists(acc, o, inject) ==
    LET a == Exec(acc, o, inject)
    IN IF a.err = NoSuch(o.type)
       THEN [a EXCEPT !.err = "", !.log[Len(a.log)].err = ""]
       ELSE a

(* The first of the types, in the order given, that the set has a          *)
(* statement of.                                                           *)
FirstClass(S, order) ==
    LET j == CHOOSE i \in 1..Len(order) :
                 /\ \E s \in S : s.type = order[i]
                 /\ \A h \in 1..(i - 1) : ~\E s \in S : s.type = order[h]
    IN {s \in S : s.type = order[j]}

(* Mutant of DeletionOrder: the tables are dropped first. *)
DeletionOrderTablesFirst == <<"TABLE", "INDEX", "VIEW", "TRIGGER">>

DeletionOrder == <<"TRIGGER", "VIEW", "INDEX", "TABLE">>
CreationOrder == <<"TABLE", "INDEX", "VIEW", "TRIGGER">>

(* AutoMigrate of the planner variant up to the transaction: fetch, parse, *)
(* identify, process; the conflicts are returned before anything is sent.  *)
PlannedAutoMigrateBegin ==
    /\ UNCHANGED ctx
    /\ UNCHANGED loopVars
    /\ UNCHANGED execVars
    /\ UNCHANGED seqVars
    /\ UNCHANGED migVars
    /\ pc = "idle"
    /\ run = 0
    /\ run' = 1
    /\ prevResult' = result
    /\ verified' = "none"
    /\ pre' = db
    /\ db' = db
    /\ log' = <<>>
    /\ UNCHANGED <<schema, allowTableDeletes, k, processedSchemaObjects, rebuiltTables,
                   tablesToDropIfDisallowed, pending>>
    /\ \E fetchFails \in BOOLEAN :
          /\ faulted' = fetchFails
          /\ IF fetchFails
             THEN /\ result' = "fetch error"
                  /\ pc' = "done"
                  /\ UNCHANGED planVars
             ELSE LET processed == ProcessSchemaDifferences(
                          IdentifySchemaDifferences(ParseSchemaReader(schema),
                                                    FetchDBSchema(db)))
                  IN /\ diffs' = [ToDelete |-> processed.ToDelete,
                                  ToCreate |-> processed.ToCreate]
                     /\ tableConflicts' \in Orders(processed.conflicts)
                     /\ IF processed.conflicts # {}
                        THEN result' = "conflicts" /\ pc' = "done"
                        ELSE result' = "running" /\ pc' = "planned"

(* ExecuteDeletions, one DROP: triggers, then views, indexes, tables. *)
ExecuteDeletions ==
    /\ UNCHANGED ctx
    /\ UNCHANGED loopVars
    /\ UNCHANGED execVars
    /\ UNCHANGED seqVars
    /\ UNCHANGED migVars
    /\ pc = "planned"
    /\ diffs.ToDelete # {}
    /\ \E s \in FirstClass(diffs.ToDelete, DeletionOrder) :
       \E f \in 0..1 :
          LET a == ExecIfExists(Acc(db, log), OpDrop(s.type, s.name), f = 1)
          IN /\ log' = a.log
             /\ faulted' = (faulted \/ f > 0)
             /\ diffs' = [diffs EXCEPT !.ToDelete = @ \ {s}]
             /\ IF a.err # ""
                THEN Rollback("exec error")
                ELSE db' = a.db /\ result' = result /\ pc' = pc
    /\ UNCHANGED <<pre, schema, allowTableDeletes, k, processedSchemaObjects,
                   rebuiltTables, tablesToDropIfDisallowed, pending, run,
                   prevResult, verified, tableConflicts>>

(* ExecuteCreations, one CREATE: tables, then indexes, views, triggers. *)
ExecuteCreations ==
    /\ UNCHANGED ctx
    /\ UNCHANGED loopVars
    /\ UNCHANGED execVars
    /\ UNCHANGED seqVars
    /\ UNCHANGED migVars
    /\ pc = "planned"
    /\ diffs.ToDelete = {}
    /\ diffs.ToCreate # {}
    /\ \E s \in FirstClass(diffs.ToCreate, CreationOrder) :
       \E f \in 0..1 :
          LET a == Exec(Acc(db, log), OpCreate(s), f = 1)
          IN /\ log' = a.log
             /\ faulted' = (faulted \/ f > 0)
             /\ diffs' = [diffs EXCEPT !.ToCreate = @ \ {s}]
             /\ IF a.err # ""
                THEN Rollback("exec error")
                ELSE db' = a.db /\ result' = result /\ pc' = pc
    /\ UNCHANGED <<pre, schema, allowTableDeletes, k, processedSchemaObjects,
                   rebuiltTables, tablesToDropIfDisallowed, pending, run,
                   prevResult, verified, tableConflicts>>

(* The callback returns nil and the transaction commits. *)
PlannedAutoMigrateReturn ==
    /\ UNCHANGED ctx
    /\ UNCHANGED loopVars
    /\ UNCHANGED execVars
    /\ UNCHANGED seqVars
    /\ UNCHANGED migVars
    /\ pc = "planned"
    /\ diffs.ToDelete = {} /\ diffs.ToCreate = {}
    /\ \E commitFails \in BOOLEAN :
          IF commitFails
          THEN Rollback("commit error") /\ faulted' = TRUE
          ELSE db' = db /\ result' = "ok" /\ pc' = "done" /\ faulted' = faulted
    /\ UNCHANGED <<pre, schema, allowTableDeletes, k, processedSchemaObjects,
                   rebuiltTables, tablesToDropIfDisallowed, pending, log, run,
                   prevResult, verified, planVars>>

InitPlan == Init /\ allowTableDeletes = TRUE

NextPlan ==
    \/ PlannedAutoMigrateBegin
    \/ ExecuteDeletions
    \/ ExecuteCreations
    \/ PlannedAutoMigrateReturn

SpecPlan == InitPlan /\ [][NextPlan]_vars

(* The planner variant on tables with table-level constraints: one table   *)
(* in the database and one definition in the stream, each with a primary   *)
(* key over one or both columns in either order or none, and at most one   *)
(* unique constraint.                                                      *)
KeyLists == {<<>>, <<"a">>, <<"a", "b">>, <<"b", "a">>}
UniqueMaps ==
    {[n \in {} |-> <<>>]} \cup
    {[n \in {name} |-> cols] : name \in {"uq"}, cols \in {<<"a", "b">>, <<"b", "a">>}} \cup
    {[n \in {"uq2"} |-> <<"a", "b">>]}

KeyedTable(n, pk, uniq) ==
    [type |-> "TABLE", name |-> n, tbl |-> "", def |-> 0, cols |-> ColsAB, pk |-> pk, uniq |-> uniq]

(* The same table with a third column, over either type of its first. *)
WideTables ==
    {[KeyedTable("t", pk, uniq) EXCEPT !.cols = cols \o <<Col("c", "TEXT")>>] :
        cols \in {ColsAB, ColsTextAB}, pk \in KeyLists, uniq \in UniqueMaps}

KeyedTables ==
    {KeyedTable("t", pk, uniq) : pk \in KeyLists, uniq \in UniqueMaps}
        \cup WideTables
        \cup {TableStmt("u", <<Col("a", "INTEGER")>>)}

InitKeys ==
    /\ \E c \in KeyedTables : db = {InitRow(c)}
    /\ \E d \in KeyedTables : schema = <<d>>
    /\ allowTableDeletes = TRUE
    /\ pre = db
    /\ pc = "idle"
    /\ k = 1
    /\ processedSchemaObjects = {}
    /\ rebuiltTables = {}
    /\ tablesToDropIfDisallowed = <<>>
    /\ pending = {}
    /\ result = "none"
    /\ log = <<>>
    /\ diffs = [ToDelete |-> {}, ToCreate |-> {}]
    /\ tableConflicts = <<>>
    /\ faulted = FALSE
    /\ run = 0
    /\ prevResult = "none"
    /\ verified = "none"
    /\ foreignKeys = TRUE
    /\ migrateTables = <<>>
    /\ fn = NoCallback
    /\ restore = "unset"
    /\ txErr = NilErr
    /\ mErrors = {}
    /\ cursor = NoCursor
    /\ seqErr = ""
    /\ yielded = 0
    /\ ctx = "live"
    /\ versions = <<>>
    /\ applied = <<>>
    /\ reader = <<>>
    /\ buf = <<>>
    /\ sent = <<>>

SpecKeys == InitKeys /\ [][NextPlan]_vars

-----------------------------------------------------------------------------
(* MigrateFunc: a versioned migration.  Foreign-key enforcement is turned  *)
(* off, the caller's callback runs in a transaction, restore() swaps each  *)
(* table of migrateTables for its new_ copy, PRAGMA foreign_key_check is   *)
(* read, the version is incremented, the transaction ends and enforcement  *)
(* is turned on again.                                                     *)

(* Bound: the version the database starts at is in 0..MaxVersion. *)
MaxVersion == 1

FkCol(n, ty, parent) == [name |-> n, type |-> ty, fk |-> parent]
Fk(c) == IF "fk" \in DOMAIN c THEN c.fk ELSE ""

ParentTable == TableStmt("parent", <<Col("id", "INTEGER")>>)
ChildTable == TableStmt("child", <<Col("id", "INTEGER"), FkCol("parent_id", "INTEGER", "parent")>>)
ChildIndex == [IndexStmt("ci", "child", 1) EXCEPT !.cols = <<Col("parent_id", "")>>]
VersionTable == TableStmt("version", <<Col("version", "INTEGER")>>)

(* The rebuilt definition the callback creates under the name new_<t>. *)
NewTable(t) ==
    IF t = "child"
    THEN TableStmt("new_child", <<FkCol("parent_id", "INTEGER", "parent"), Col("id", "INTEGER")>>)
    ELSE TableStmt("new_parent", <<Col("id", "INTEGER")>>)

(* The rebuilt definition of a callback: that of NewTable, or for child    *)
(* one without the column parent_id.                                       *)
Rebuilt(t, cb) ==
    IF t = "child" /\ cb.dropsColumn
    THEN TableStmt("new_child", <<Col("id", "INTEGER")>>)
    ELSE NewTable(t)

MigRow(s, rows) == [sql |-> s, raw |-> FALSE, rows |-> rows]

(* The databases a migration starts from: a parent and a child row that    *)
(* refers to it, with or without an index on the child, with a version     *)
(* table or (a database never initialised) without one.                    *)
MigrateDbs ==
    {({MigRow(ParentTable, {[id |-> "1"]}),
       MigRow(ChildTable, {[id |-> "1", parent_id |-> "1"]})}
      \cup ix) \cup vt :
        ix \in {{}, {MigRow(ChildIndex, {})}},
        vt \in {{}} \cup {{MigRow(VersionTable, {[version |-> v]})} : v \in 0..MaxVersion}}

MigrateTableLists == {<<>>, <<"child">>, <<"parent", "child">>}

(* What a callback does: the tables it builds a new_ copy of, whether the  *)
(* copy of child leaves a column out, whether it deletes the parent rows,  *)
(* how many times it calls restore itself, how it ends.                    *)
MaxRestoreCalls == 2
Callbacks ==
    [rebuild : SUBSET {"parent", "child"}, dropsColumn : BOOLEAN, orphan : BOOLEAN,
     callsRestore : 0..MaxRestoreCalls,
     outcome : {"nil", "error", "panic Error", "panic"}]

(* PRAGMA foreign_key_check: the rows of a table whose foreign-key column  *)
(* has no matching row in the parent table.                                *)
foreign_key_check(d) ==
    UNION {UNION {{[table |-> r.sql.name, parent |-> Fk(r.sql.cols[j]), row |-> x] :
                     x \in {y \in r.rows :
                              ~\E p \in FindType(d, "TABLE", Fk(r.sql.cols[j])) :
                                  \E q \in p.rows : q.id = y[r.sql.cols[j].name]}} :
                  j \in {i \in 1..Len(r.sql.cols) : Fk(r.sql.cols[i]) # ""}} :
           r \in {x \in d : x.sql.type = "TABLE"}}

(* Calls that are not statements of the transaction, as the log keeps them. *)
OpCall(c) == [op |-> c, type |-> "", name |-> "", tbl |-> "", stmt |-> NoStmt, err |-> ""]
Logged(l, c, failed) == Append(l, [OpCall(c) EXCEPT !.err = IF failed THEN "driver error" ELSE ""])

(* The body of fn as far as it sends statements: DELETE FROM parent, and   *)
(* for each table it rebuilds CREATE TABLE new_t and the copy of the rows. *)
RECURSIVE CallbackRebuild(_, _, _)
CallbackRebuild(acc, tables, cb) ==
    IF tables = <<>> THEN acc
    ELSE LET t == Head(tables)
             created == Exec(acc, OpCreate(Rebuilt(t, cb)), FALSE)
         IN CallbackRebuild(Exec(created, OpCopy(Rebuilt(t, cb), t), FALSE), Tail(tables), cb)

CallbackBody(acc, cb, inject) ==
    LET a == IF cb.orphan THEN Exec(acc, OpDelete("parent"), inject) ELSE acc
    IN CallbackRebuild(a, SelectSeq(<<"parent", "child">>, LAMBDA t : t \in cb.rebuild), cb)

(* restore: DROP TABLE t and ALTER TABLE new_t RENAME TO t for each table. *)
RECURSIVE RestoreSwap(_, _)
RestoreSwap(acc, tables) ==
    IF tables = <<>> THEN acc
    ELSE LET t == Head(tables)
             dropped == Exec(acc, OpDrop("TABLE", t), FALSE)
         IN RestoreSwap(Exec(dropped, OpRename("new_" \o t, t), FALSE), Tail(tables))

(* column.X.String() of an index column: the text the parser's library    *)
(* prints for the identifier, the bare name or the name in double quotes.  *)
ExprString(n, quoted) == IF quoted THEN "\"" \o n \o "\"" ELSE n

(* allPresent: every column of the index, as printed, is among the column  *)
(* names of the table read from sqlite_master.                             *)
allPresent(masterInfo, tableInfo, quoted) ==
    \A c \in ColNames(masterInfo) : ExprString(c, quoted) \in ColNames(tableInfo)

(* restore: the indexes, triggers and views read from sqlite_master before *)
(* the swap are created again; an index only if the table it was read with *)
(* has all its columns.                                                    *)
RECURSIVE RestoreDependents(_, _, _, _)
RestoreDependents(acc, rest, masterTableMap, quoted) ==
    IF rest = {} \/ acc.err # "" THEN acc
    ELSE LET masterInfo == CHOOSE r \in rest : TRUE
             next == rest \ {masterInfo}
         IN IF masterInfo.tbl \notin DOMAIN masterTableMap
            THEN [acc EXCEPT !.err = "could not find table"]
            ELSE IF masterInfo.type = "INDEX"
                    /\ ~allPresent(masterInfo, masterTableMap[masterInfo.tbl], quoted)
            THEN RestoreDependents(acc, next, masterTableMap, quoted)
            ELSE RestoreDependents(Exec(acc, OpCreate(masterInfo), FALSE), next,
                                   masterTableMap, quoted)

(* restore(), the function sync.OnceValue wraps. *)
Restore(acc, tables, selectFails, quoted) ==
    IF tables = <<>> THEN acc
    ELSE IF selectFails THEN [acc EXCEPT !.err = "could not get master rows"]
    ELSE LET names == {tables[j] : j \in 1..Len(tables)}
             masterInfos == {r.sql : r \in {x \in acc.db :
                                (x.sql.type = "TABLE" /\ x.sql.name \in names)
                                \/ (x.sql.type # "TABLE" /\ x.sql.tbl \in names)}}
             masterTableMap == [n \in {m.name : m \in {x \in masterInfos : x.type = "TABLE"}} |->
                                   CHOOSE m \in masterInfos : m.type = "TABLE" /\ m.name = n]
         IN RestoreDependents(RestoreSwap(acc, tables),
                              {m \in masterInfos : m.type # "TABLE"}, masterTableMap,
                              quoted)

(* sync.OnceValue(restore): the first call runs the function and keeps    *)
(* what it returned (first, "unset" before), every later call returns that *)
(* value.                                                                  *)
OnceValueRunsEveryCall(first, acc, tables, selectFails, quoted) ==
    Restore(acc, tables, selectFails, quoted)
OnceValue(first, acc, tables, selectFails, quoted) ==
    IF first = "unset" THEN Restore(acc, tables, selectFails, quoted)
    ELSE [acc EXCEPT !.err = first]

(* The callback calls restore n times and returns at the first error. *)
RECURSIVE RestoreCalls(_, _, _, _, _, _)
RestoreCalls(n, first, acc, tables, selectFails, quoted) ==
    IF n = 0 \/ acc.err # "" THEN acc
    ELSE LET a == OnceValue(first, acc, tables, selectFails, quoted)
         IN RestoreCalls(n - 1, a.err, a, tables, selectFails, quoted)

ErrOf(v) == [kind |-> "error", value |-> v]
PanicOf(v) == [kind |-> "panic", value |-> v]

(* MigrateFunc's function up to the callback: PRAGMA foreign_keys=OFF and  *)
(* BeginTxx.                                                               *)
MigrateBegin ==
    /\ UNCHANGED ctx
    /\ UNCHANGED loopVars
    /\ UNCHANGED execVars
    /\ UNCHANGED seqVars
    /\ pc = "idle"
    /\ run = 0
    /\ run' = 1
    /\ \E tables \in MigrateTableLists, cb \in Callbacks, offFails, beginFails \in BOOLEAN :
          /\ migrateTables' = tables
          /\ fn' = cb
          /\ faulted' = (offFails \/ beginFails)
          /\ IF offFails
             THEN /\ log' = Logged(<<>>, "PRAGMA foreign_keys=OFF", TRUE)
                  /\ foreignKeys' = foreignKeys
                  /\ result' = "could not turn foreign keys off"
                  /\ txErr' = txErr
                  /\ pc' = "done"
             ELSE /\ log' = Logged(Logged(<<>>, "PRAGMA foreign_keys=OFF", FALSE), "BEGIN", beginFails)
                  /\ foreignKeys' = FALSE
                  /\ result' = "running"
                  /\ txErr' = IF beginFails THEN ErrOf("failed to start transaction") ELSE NilErr
                  /\ pc' = IF beginFails THEN "fkon" ELSE "callback"
    /\ pre' = db
    /\ UNCHANGED <<db, schema, allowTableDeletes, k, processedSchemaObjects, rebuiltTables,
                   tablesToDropIfDisallowed, pending, prevResult, verified, restore, mErrors>>
    /\ UNCHANGED planVars

(* err = fn(tx, restore): the callback, with the call of restore it makes. *)
MigrateCallback ==
    /\ UNCHANGED ctx
    /\ UNCHANGED loopVars
    /\ UNCHANGED execVars
    /\ UNCHANGED seqVars
    /\ pc = "callback"
    /\ \E inject, selectFails, quoted \in BOOLEAN :
          LET body == CallbackBody(Acc(db, log), fn, inject)
              a == IF fn.callsRestore > 0 /\ body.err = ""
                   THEN RestoreCalls(fn.callsRestore, restore, body, migrateTables,
                                     selectFails, quoted)
                   ELSE body
          IN /\ db' = a.db
             /\ log' = a.log
             /\ faulted' = (faulted \/ (inject /\ fn.orphan)
                              \/ (selectFails /\ fn.callsRestore > 0 /\ body.err = ""
                                    /\ migrateTables # <<>>))
             /\ restore' = IF fn.callsRestore > 0 /\ body.err = "" THEN a.err ELSE restore
             /\ txErr' = IF a.err # "" THEN ErrOf(a.err)
                         ELSE CASE fn.outcome = "nil" -> NilErr
                                [] fn.outcome = "error" -> ErrOf("callback error")
                                [] fn.outcome = "panic Error" -> PanicOf("Error")
                                [] OTHER -> PanicOf("other")
             /\ pc' = IF a.err = "" /\ fn.outcome = "nil" THEN "restore" ELSE "txend"
    /\ UNCHANGED <<pre, schema, allowTableDeletes, k, processedSchemaObjects, rebuiltTables,
                   tablesToDropIfDisallowed, pending, result, run, prevResult, verified,
                   foreignKeys, migrateTables, fn, mErrors>>
    /\ UNCHANGED planVars

(* err = restore(): run once; a second call gets the value of the first. *)
MigrateRestore ==
    /\ UNCHANGED ctx
    /\ UNCHANGED loopVars
    /\ UNCHANGED execVars
    /\ UNCHANGED seqVars
    /\ pc = "restore"
    /\ \E selectFails, quoted \in BOOLEAN :
          LET a == OnceValue(restore, Acc(db, log), migrateTables, selectFails, quoted)
          IN /\ db' = a.db
             /\ log' = a.log
             /\ faulted' = (faulted \/ (selectFails /\ restore = "unset" /\ migrateTables # <<>>))
             /\ restore' = a.err
             /\ txErr' = IF a.err # "" THEN ErrOf(a.err) ELSE NilErr
             /\ pc' = IF a.err # "" THEN "txend" ELSE "check"
    /\ UNCHANGED <<pre, schema, allowTableDeletes, k, processedSchemaObjects, rebuiltTables,
                   tablesToDropIfDisallowed, pending, result, run, prevResult, verified,
                   foreignKeys, migrateTables, fn, mErrors>>
    /\ UNCHANGED planVars

(* The rows of PRAGMA foreign_key_check: any row fails the transaction. *)
MigrateForeignKeyCheck ==
    /\ UNCHANGED ctx
    /\ UNCHANGED loopVars
    /\ UNCHANGED execVars
    /\ UNCHANGED seqVars
    /\ pc = "check"
    /\ \E selectFails \in BOOLEAN :
          /\ log' = Logged(log, "PRAGMA foreign_key_check", selectFails)
          /\ faulted' = (faulted \/ selectFails)
          /\ mErrors' = IF selectFails THEN {} ELSE foreign_key_check(db)
          /\ txErr' = IF selectFails THEN ErrOf("foreign_key_check error")
                      ELSE IF foreign_key_check(db) # {}
                           THEN ErrOf("foreign_key migration errors")
                           ELSE NilErr
          /\ pc' = IF selectFails \/ foreign_key_check(db) # {} THEN "txend" ELSE "version"
    /\ UNCHANGED <<db, pre, schema, allowTableDeletes, k, processedSchemaObjects, rebuiltTables,
                   tablesToDropIfDisallowed, pending, result, run, prevResult, verified,
                   foreignKeys, migrateTables, fn, restore>>
    /\ UNCHANGED planVars

(* tx.MustExec(UPDATE version ...): an error of the statement is a panic   *)
(* with an Error value.                                                    *)
MigrateUpdateVersion ==
    /\ UNCHANGED ctx
    /\ UNCHANGED loopVars
    /\ UNCHANGED execVars
    /\ UNCHANGED seqVars
    /\ pc = "version"
    /\ \E inject \in BOOLEAN :
          LET a == Exec(Acc(db, log), OpUpdateVersion, inject)
          IN /\ db' = a.db
             /\ log' = a.log
             /\ faulted' = (faulted \/ inject)
             /\ txErr' = IF a.err # "" THEN PanicOf("Error") ELSE NilErr
    /\ pc' = "txend"
    /\ UNCHANGED <<pre, schema, allowTableDeletes, k, processedSchemaObjects, rebuiltTables,
                   tablesToDropIfDisallowed, pending, result, run, prevResult, verified,
                   foreignKeys, migrateTables, fn, restore, mErrors>>
    /\ UNCHANGED planVars

(* transaction: COMMIT after nil, ROLLBACK after an error; a panic is      *)
(* recovered, rolled back, and returned as the error if its value is an    *)
(* Error, raised again if it is not.                                       *)
(* How transaction() ends the transaction it began: Commit after fn       *)
(* returned nil, Rollback after it returned an error or panicked.          *)
EndAlwaysCommit(err) == "COMMIT"
EndOfTransaction(err) == IF err.kind = "nil" THEN "COMMIT" ELSE "ROLLBACK"

MigrateTransactionEnd ==
    /\ UNCHANGED ctx
    /\ UNCHANGED loopVars
    /\ UNCHANGED execVars
    /\ UNCHANGED seqVars
    /\ pc = "txend"
    /\ \E endFails \in BOOLEAN :
          /\ faulted' = (faulted \/ endFails)
          /\ CASE txErr.kind = "nil" ->
                    /\ log' = Logged(log, EndOfTransaction(txErr), endFails)
                    /\ db' = IF endFails THEN pre ELSE db
                    /\ txErr' = IF endFails THEN ErrOf("commit error") ELSE NilErr
                    /\ pc' = "fkon"
                    /\ result' = result
               [] txErr.kind = "error" ->
                    /\ log' = Logged(log, EndOfTransaction(txErr), endFails)
                    /\ db' = pre
                    /\ txErr' = IF endFails THEN ErrOf("failed to rollback transaction") ELSE txErr
                    /\ pc' = "fkon"
                    /\ result' = result
               [] OTHER ->
                    /\ log' = Logged(log, EndOfTransaction(txErr), endFails)
                    /\ db' = pre
                    /\ txErr' = IF txErr.value = "Error" THEN ErrOf("Error") ELSE txErr
                    /\ pc' = IF txErr.value = "Error" THEN "fkon" ELSE "panicked"
                    /\ result' = IF txErr.value = "Error" THEN result ELSE "panic"
    /\ UNCHANGED <<pre, schema, allowTableDeletes, k, processedSchemaObjects, rebuiltTables,
                   tablesToDropIfDisallowed, pending, run, prevResult, verified,
                   foreignKeys, migrateTables, fn, restore, mErrors>>
    /\ UNCHANGED planVars

(* What MigrateFunc returns after the transaction returned nil. *)
ReturnAfterSuccessSilent(pragmaFails) == "ok"

ReturnAfterSuccess(pragmaFails) ==
    IF pragmaFails
    THEN "unable to turn foreign keys back on after sucessful migration"
    ELSE "ok"

(* What MigrateFunc returns after the transaction returned err. *)
ReturnAfterFailure(err, pragmaFails) ==
    IF pragmaFails
    THEN "unable to turn foreign keys back on after failed migaration"
    ELSE err

(* PRAGMA foreign_keys=ON after the transaction, and the return. *)
MigrateReturn ==
    /\ UNCHANGED ctx
    /\ UNCHANGED loopVars
    /\ UNCHANGED execVars
    /\ UNCHANGED seqVars
    /\ pc = "fkon"
    /\ \E pragmaFails \in BOOLEAN :
          /\ log' = Logged(log, "PRAGMA foreign_keys=ON", pragmaFails)
          /\ faulted' = (faulted \/ pragmaFails)
          /\ foreignKeys' = IF pragmaFails THEN foreignKeys ELSE TRUE
          /\ result' = IF txErr.kind = "nil"
                       THEN ReturnAfterSuccess(pragmaFails)
                       ELSE ReturnAfterFailure(txErr.value, pragmaFails)
    /\ pc' = "done"
    /\ UNCHANGED <<db, pre, schema, allowTableDeletes, k, processedSchemaObjects, rebuiltTables,
                   tablesToDropIfDisallowed, pending, run, prevResult, verified,
                   migrateTables, fn, restore, txErr, mErrors>>
    /\ UNCHANGED planVars

InitMigrate ==
    /\ db \in MigrateDbs
    /\ foreignKeys \in BOOLEAN
    /\ schema = <<>>
    /\ allowTableDeletes = FALSE
    /\ pre = db
    /\ pc = "idle"
    /\ k = 1
    /\ processedSchemaObjects = {}
    /\ rebuiltTables = {}
    /\ tablesToDropIfDisallowed = <<>>
    /\ pending = {}
    /\ result = "none"
    /\ log = <<>>
    /\ diffs = [ToDelete |-> {}, ToCreate |-> {}]
    /\ tableConflicts = <<>>
    /\ faulted = FALSE
    /\ run = 0
    /\ prevResult = "none"
    /\ verified = "none"
    /\ migrateTables = <<>>
    /\ fn = NoCallback
    /\ restore = "unset"
    /\ txErr = NilErr
    /\ mErrors = {}
    /\ cursor = NoCursor
    /\ seqErr = ""
    /\ yielded = 0
    /\ ctx = "live"
    /\ versions = <<>>
    /\ applied = <<>>
    /\ reader = <<>>
    /\ buf = <<>>
    /\ sent = <<>>

NextMigrate ==
    \/ MigrateBegin
    \/ MigrateCallback
    \/ MigrateRestore
    \/ MigrateForeignKeyCheck
    \/ MigrateUpdateVersion
    \/ MigrateTransactionEnd
    \/ MigrateReturn

SpecMigrate == InitMigrate /\ [][NextMigrate]_vars

-----------------------------------------------------------------------------
(* RowsSeq: the iterator SelectSeq returns over the rows of a query.       *)
(* cursor is the *sqlx.Rows of the RowsSeq ("nil" when the query failed),  *)
(* seqErr its err field; run counts the iterations started, faulted says   *)
(* that a driver call failed during the running / last iteration.          *)
MaxRows == 5

seqIdleVars == <<db, pre, schema, allowTableDeletes, k, processedSchemaObjects,
                 rebuiltTables, tablesToDropIfDisallowed, pending, result, log,
                 prevResult, verified>>

(* rows.Next(): false on a closed cursor; a driver error or the end of the *)
(* rows closes the cursor and gives false; otherwise the next row.         *)
RowsNext(c, driverFails) ==
    IF c.state # "open" THEN [ok |-> FALSE, rows |-> c]
    ELSE IF driverFails
         THEN [ok |-> FALSE, rows |-> [c EXCEPT !.state = "closed", !.lasterr = "driver error"]]
    ELSE IF c.left = 0 THEN [ok |-> FALSE, rows |-> [c EXCEPT !.state = "closed"]]
    ELSE [ok |-> TRUE, rows |-> [c EXCEPT !.left = @ - 1]]

(* rows.Close(): the cursor is closed whatever the driver answers; closing *)
(* a closed cursor is a no-op returning nil.                               *)
RowsClose(c, closeFails) ==
    [err  |-> IF c.state = "open" /\ closeFails THEN "close error" ELSE "",
     rows |-> IF c.state = "open" THEN [c EXCEPT !.state = "closed"] ELSE c]

(* The scan-error branch as it would be without its e.rows.Close(). *)
ScanFailedCursorLeft(c) == [err |-> "scan error", rows |-> c]

(* StructScan failed: e.err = err; e.rows.Close(); return. *)
ScanFailed(c) == [err |-> "scan error", rows |-> RowsClose(c, FALSE).rows]

(* fn(dest) returned false: e.err = e.rows.Close(); return. *)
ConsumerStopped(c, closeFails) == RowsClose(c, closeFails)

(* rows.Next() returned false: e.err is rows.Err() if there is one, else   *)
(* what e.rows.Close() returns.                                            *)
LoopEnded(c, closeFails) ==
    IF c.lasterr # "" THEN [err |-> c.lasterr, rows |-> c]
    ELSE RowsClose(c, closeFails)

(* RowsSeq.Err() *)
Err == seqErr

(* sqlxDB.SelectSeq: Queryx, then &RowsSeq{rows: rows, err: err}. *)
sqlxDBSelectSeq ==
    /\ UNCHANGED ctx
    /\ UNCHANGED loopVars
    /\ UNCHANGED execVars
    /\ pc = "idle"
    /\ \E n \in 0..MaxRows, queryFails \in BOOLEAN :
         /\ cursor' = IF queryFails THEN NoCursor
                      ELSE [state |-> "open", left |-> n, lasterr |-> ""]
         /\ seqErr' = IF queryFails THEN "query error" ELSE ""
    /\ pc' = "seq"
    /\ UNCHANGED <<yielded, faulted, run>>
    /\ UNCHANGED seqIdleVars
    /\ UNCHANGED planVars
    /\ UNCHANGED migVars

(* RowsSeq.Iter, and the start of the range over what it returns: emptySeq *)
(* (which ends at once) when e.err or rows.Err() is set, the loop else.    *)
RowsSeqIter ==
    /\ UNCHANGED ctx
    /\ UNCHANGED loopVars
    /\ UNCHANGED execVars
    /\ pc \in {"seq", "ended", "empty"}
    /\ run < MaxRuns
    /\ run' = run + 1
    /\ yielded' = 0
    /\ faulted' = FALSE
    /\ IF seqErr # ""
       THEN pc' = "empty" /\ UNCHANGED seqErr
       ELSE IF cursor.lasterr # ""
            THEN pc' = "empty" /\ seqErr' = cursor.lasterr
            ELSE pc' = "iterating" /\ UNCHANGED seqErr
    /\ UNCHANGED cursor
    /\ UNCHANGED seqIdleVars
    /\ UNCHANGED planVars
    /\ UNCHANGED migVars

(* The function Iter returned is ranged over once more. *)
RowsSeqIterAgain ==
    /\ UNCHANGED ctx
    /\ UNCHANGED loopVars
    /\ UNCHANGED execVars
    /\ pc = "ended"
    /\ run < MaxRuns
    /\ run' = run + 1
    /\ yielded' = 0
    /\ faulted' = FALSE
    /\ pc' = "iterating"
    /\ UNCHANGED <<cursor, seqErr>>
    /\ UNCHANGED seqIdleVars
    /\ UNCHANGED planVars
    /\ UNCHANGED migVars

(* One turn of the loop of the iterator function: rows.Next(), StructScan, *)
(* the consumer's fn, or the statements after the loop.                    *)
RowsSeqIterStep ==
    /\ UNCHANGED ctx
    /\ UNCHANGED loopVars
    /\ UNCHANGED execVars
    /\ pc = "iterating"
    /\ \E driverFails, scanFails, stop, closeFails \in BOOLEAN :
         LET nx == RowsNext(cursor, driverFails)
             end == IF ~nx.ok THEN LoopEnded(nx.rows, closeFails)
                    ELSE IF scanFails THEN ScanFailed(nx.rows)
                    ELSE ConsumerStopped(nx.rows, closeFails)
         IN  IF nx.ok /\ ~scanFails /\ ~stop
             THEN /\ cursor' = nx.rows
                  /\ yielded' = yielded + 1
                  /\ UNCHANGED <<seqErr, faulted, pc>>
             ELSE /\ cursor' = end.rows
                  /\ seqErr' = end.err
                  /\ yielded' = IF nx.ok /\ ~scanFails THEN yielded + 1 ELSE yielded
                  /\ faulted' = \/ (nx.ok /\ scanFails)
                                \/ nx.rows.lasterr # ""
                                \/ end.err # ""
                  /\ pc' = "ended"
    /\ UNCHANGED run
    /\ UNCHANGED seqIdleVars
    /\ UNCHANGED planVars
    /\ UNCHANGED migVars

InitSeq ==
    /\ db = {}
    /\ foreignKeys = TRUE
    /\ schema = <<>>
    /\ allowTableDeletes = FALSE
    /\ pre = db
    /\ pc = "idle"
    /\ k = 1
    /\ processedSchemaObjects = {}
    /\ rebuiltTables = {}
    /\ tablesToDropIfDisallowed = <<>>
    /\ pending = {}
    /\ result = "none"
    /\ log = <<>>
    /\ diffs = [ToDelete |-> {}, ToCreate |-> {}]
    /\ tableConflicts = <<>>
    /\ faulted = FALSE
    /\ run = 0
    /\ prevResult = "none"
    /\ verified = "none"
    /\ migrateTables = <<>>
    /\ fn = NoCallback
    /\ restore = "unset"
    /\ txErr = NilErr
    /\ mErrors = {}
    /\ cursor = NoCursor
    /\ seqErr = ""
    /\ yielded = 0
    /\ ctx = "live"
    /\ versions = <<>>
    /\ applied = <<>>
    /\ reader = <<>>
    /\ buf = <<>>
    /\ sent = <<>>

NextSeq ==
    \/ sqlxDBSelectSeq
    \/ RowsSeqIter
    \/ RowsSeqIterAgain
    \/ RowsSeqIterStep

SpecSeq == InitSeq /\ [][NextSeq]_vars

-----------------------------------------------------------------------------
(* Migrate: the loop that reads the stored version and calls the function  *)
(* the map holds for it.  A function of the map is modelled by what it     *)
(* does to the stored version: "advance" returns nil after adding one (a   *)
(* MigrationFunc of MigrateFunc that succeeds), "fail" returns an error    *)
(* and "stay" returns nil, both leaving the version as it was.             *)
MaxKey == 2
MaxCalls == 3

(* lastVersion := -1; the loop never assigns it. *)
lastVersion == -1

VersionKeys == lastVersion..MaxKey
Behaviours == {"advance", "fail", "stay"}
MigrationMaps == UNION {[ks -> Behaviours] : ks \in SUBSET VersionKeys}

(* The databases Migrate is called on: no version table, an empty one, or  *)
(* one row holding the version.                                            *)
VersionDbs ==
    {{}, {MigRow(VersionTable, {})}}
        \cup {{MigRow(VersionTable, {[version |-> v]})} : v \in VersionKeys}

(* db.Get(&version, "SELECT version FROM version LIMIT 1") *)
GetVersion(d) ==
    LET t == FindType(d, "TABLE", "version")
    IN IF t = {} THEN [err |-> "no such table: version", version |-> 0]
       ELSE LET rows == (CHOOSE r \in t : TRUE).rows
            IN IF rows = {} THEN [err |-> "ErrNoRows", version |-> 0]
               ELSE [err |-> "", version |-> (CHOOSE x \in rows : TRUE).version]

(* fn(ctx, db) for the function stored under a key. *)
Apply(behaviour, d) ==
    IF behaviour = "advance" THEN ExecUpdateVersion(d)
    ELSE IF behaviour = "fail" THEN Res("migration failed", d)
    ELSE Res("", d)

(* One turn of the loop of Migrate; the first one starts the call. *)
MigrateLoop ==
    /\ UNCHANGED execVars
    /\ pc \in {"idle", "loop"}
    /\ Len(applied) < MaxCalls
    /\ \E getFails \in BOOLEAN :
         LET got == GetVersion(db)
             version == got.version
         IN  IF getFails
             THEN /\ result' = "driver error"
                  /\ pc' = "done"
                  /\ UNCHANGED <<db, applied>>
             ELSE IF got.err # ""
             THEN /\ result' = "ErrNoVersion"
                  /\ pc' = "done"
                  /\ UNCHANGED <<db, applied>>
             ELSE IF version = lastVersion \/ version \notin DOMAIN versions
             THEN /\ result' = "ok"
                  /\ pc' = "done"
                  /\ UNCHANGED <<db, applied>>
             ELSE LET r == Apply(versions[version], db)
                  IN /\ applied' = Append(applied, version)
                     /\ db' = r.db
                     /\ result' = IF r.err # "" THEN r.err ELSE "running"
                     /\ pc' = IF r.err # "" THEN "done" ELSE "loop"
    /\ UNCHANGED <<pre, schema, allowTableDeletes, k, processedSchemaObjects,
                   rebuiltTables, tablesToDropIfDisallowed, pending, log, faulted,
                   run, prevResult, verified, versions, ctx>>
    /\ UNCHANGED planVars
    /\ UNCHANGED migVars
    /\ UNCHANGED seqVars

InitLoop ==
    /\ db \in VersionDbs
    /\ versions \in MigrationMaps
    /\ applied = <<>>
    /\ reader = <<>>
    /\ buf = <<>>
    /\ sent = <<>>
    /\ foreignKeys = TRUE
    /\ schema = <<>>
    /\ allowTableDeletes = FALSE
    /\ pre = db
    /\ pc = "idle"
    /\ k = 1
    /\ processedSchemaObjects = {}
    /\ rebuiltTables = {}
    /\ tablesToDropIfDisallowed = <<>>
    /\ pending = {}
    /\ result = "none"
    /\ log = <<>>
    /\ diffs = [ToDelete |-> {}, ToCreate |-> {}]
    /\ tableConflicts = <<>>
    /\ faulted = FALSE
    /\ run = 0
    /\ prevResult = "none"
    /\ verified = "none"
    /\ migrateTables = <<>>
    /\ fn = NoCallback
    /\ restore = "unset"
    /\ txErr = NilErr
    /\ mErrors = {}
    /\ cursor = NoCursor
    /\ seqErr = ""
    /\ yielded = 0
    /\ ctx = "live"

NextLoop == MigrateLoop

SpecLoop == InitLoop /\ [][NextLoop]_vars

-----------------------------------------------------------------------------
(* ExecTx: the batch executor.  The SQL text is a sequence of tokens; a    *)
(* token that ends in ';' ends a chunk of ReadString(';').  The texts have *)
(* no "--" comment, so the comment loop of ExecTx changes nothing.         *)
MaxBody == 3
MaxBatch == 3

(* The text of CREATE TABLE ...; *)
PlainText == <<"CREATE TABLE;">>

(* The text of CREATE TRIGGER ... BEGIN s1; ... sn; END; *)
TriggerText(n) == <<"CREATE TRIGGER">> \o [i \in 1..n |-> "body;"] \o <<"END;">>

BatchItems == {PlainText} \cup {TriggerText(n) : n \in 1..MaxBody}
Batches == UNION {[1..n -> BatchItems] : n \in 0..MaxBatch}

RECURSIVE Flatten(_)
Flatten(ss) == IF ss = <<>> THEN <<>> ELSE Head(ss) \o Flatten(Tail(ss))

EndsInSemicolon(tok) == tok \in {"CREATE TABLE;", "body;", "END;"}

(* scanner.ReadString(';'): the tokens up to and with the first one that   *)
(* ends in ';', or io.EOF when there is none.                              *)
ReadString(r) ==
    IF \E j \in 1..Len(r) : EndsInSemicolon(r[j])
    THEN LET n == CHOOSE j \in 1..Len(r) :
                      EndsInSemicolon(r[j]) /\ \A i \in 1..(j - 1) : ~EndsInSemicolon(r[i])
         IN [chunk |-> SubSeq(r, 1, n), rest |-> SubSeq(r, n + 1, Len(r)), eof |-> FALSE]
    ELSE [chunk |-> r, rest |-> <<>>, eof |-> TRUE]

(* strings.Contains(chunk, "CREATE TRIGGER") *)
ContainsCreateTrigger(chunk) == \E j \in 1..Len(chunk) : chunk[j] = "CREATE TRIGGER"

(* strings.HasSuffix(chunk, "END;") *)
HasSuffixEnd(chunk) == chunk # <<>> /\ chunk[Len(chunk)] = "END;"

(* if strings.Contains(chunk, "CREATE TRIGGER") && !strings.HasSuffix(chunk, "END;") *)
HoldBack(held, chunk) == ContainsCreateTrigger(chunk) /\ ~HasSuffixEnd(chunk)

(* The database takes whole statements only. *)
ExecText(stmt) == IF stmt \in BatchItems THEN "" ELSE "syntax error"

(* One turn of the loop of ExecTx. *)
ExecTxChunk ==
    /\ UNCHANGED ctx
    /\ UNCHANGED loopVars
    /\ pc = "exec"
    /\ LET rd == ReadString(reader)
       IN IF rd.eof
          THEN /\ result' = "ok"
               /\ pc' = "done"
               /\ UNCHANGED <<reader, buf, sent>>
          ELSE IF HoldBack(buf, rd.chunk)
          THEN /\ buf' = buf \o rd.chunk
               /\ reader' = rd.rest
               /\ UNCHANGED <<sent, result, pc>>
          ELSE LET stmt == buf \o rd.chunk
               IN /\ buf' = <<>>
                  /\ reader' = rd.rest
                  /\ sent' = Append(sent, stmt)
                  /\ result' = IF ExecText(stmt) # "" THEN ExecText(stmt) ELSE result
                  /\ pc' = IF ExecText(stmt) # "" THEN "done" ELSE pc
    /\ UNCHANGED <<db, pre, schema, allowTableDeletes, k, processedSchemaObjects,
                   rebuiltTables, tablesToDropIfDisallowed, pending, log, faulted,
                   run, prevResult, verified>>
    /\ UNCHANGED planVars
    /\ UNCHANGED migVars
    /\ UNCHANGED seqVars

InitExec ==
    /\ schema \in Batches
    /\ reader = Flatten(schema)
    /\ buf = <<>>
    /\ sent = <<>>
    /\ pc = "exec"
    /\ result = "running"
    /\ db = {}
    /\ pre = db
    /\ versions = <<>>
    /\ applied = <<>>
    /\ foreignKeys = TRUE
    /\ allowTableDeletes = FALSE
    /\ k = 1
    /\ processedSchemaObjects = {}
    /\ rebuiltTables = {}
    /\ tablesToDropIfDisallowed = <<>>
    /\ pending = {}
    /\ log = <<>>
    /\ diffs = [ToDelete |-> {}, ToCreate |-> {}]
    /\ tableConflicts = <<>>
    /\ faulted = FALSE
    /\ run = 0
    /\ prevResult = "none"
    /\ verified = "none"
    /\ migrateTables = <<>>
    /\ fn = NoCallback
    /\ restore = "unset"
    /\ txErr = NilErr
    /\ mErrors = {}
    /\ cursor = NoCursor
    /\ seqErr = ""
    /\ yielded = 0
    /\ ctx = "live"

NextExec == ExecTxChunk

SpecExec == InitExec /\ [][NextExec]_vars

-----------------------------------------------------------------------------
(* Vocabulary of the properties, stated on the databases before and after  *)
(* a call and on the target, not on the code's own comparisons.            *)
Done == pc = "done"

Norm(ty) == IF ty = "INT" THEN "INTEGER" ELSE ty
ColSet(s) == {[name |-> s.cols[j].name, type |-> Norm(s.cols[j].type)] : j \in 1..Len(s.cols)}
ColOrder(s) == [j \in 1..Len(s.cols) |-> s.cols[j].name]
SameName(a, b) == ToLower(a.name) = ToLower(b.name)

(* Two definitions of one object are equivalent: tables by structure,      *)
(* everything else by canonical SQL.                                       *)
EquivalentDef(d, s) ==
    IF d.type = "TABLE" /\ s.type = "TABLE"
    THEN ColSet(d) = ColSet(s) /\ ColOrder(d) = ColOrder(s)
    ELSE d = s

(* Two tables that differ in the declared order of their columns only. *)
ReorderOnly(d, s) ==
    /\ d.type = "TABLE" /\ s.type = "TABLE"
    /\ ColSet(d) = ColSet(s)
    /\ ColOrder(d) # ColOrder(s)

Target == {schema[j] : j \in 1..Len(schema)}

(* A target that is a schema: no name defined twice, and the table of      *)
(* every index and trigger is defined in it.                               *)
WellFormedTarget ==
    /\ \A i, j \in 1..Len(schema) : SameName(schema[i], schema[j]) => i = j
    /\ \A s \in Target : s.type \in {"INDEX", "TRIGGER"} =>
           \E t \in Target : t.type = "TABLE" /\ ToLower(t.name) = ToLower(s.tbl)

SchemaOf(d) == {[sql |-> r.sql, raw |-> r.raw] : r \in d}

Applied(l) == \E j \in 1..Len(l) : l[j].err = ""

(* The tables of the database before the call that the target does not     *)
(* define as a table.                                                      *)
TablesAbsentFromTarget ==
    {r \in pre : r.sql.type = "TABLE" /\
        ~\E s \in Target : s.type = "TABLE" /\ SameName(s, r.sql)}

ListedTables == {tablesToDropIfDisallowed[j] : j \in 1..Len(tablesToDropIfDisallowed)}

(* The non-table objects of the database before the call that the target   *)
(* does not define with that type.                                         *)
ExtraNonTables ==
    {r \in pre : r.sql.type # "TABLE" /\
        ~\E s \in Target : s.type = r.sql.type /\ SameName(s, r.sql)}

OtherError ==
    result \in {"conflict", "exec error", "duplicate object name",
                "masterRows error", "commit error"}

-----------------------------------------------------------------------------
(* C1: when a statement of AutoMigrate fails and AutoMigrate returns that  *)
(* error, the database (catalog and table rows) is exactly the database    *)
(* before the call.                                                        *)
C1_AtomicOnStatementFailure ==
    (Done /\ result = "exec error") => db = pre

(* A statement failed after an earlier statement of the call was applied. *)
C1_Witness ==
    /\ Done /\ result = "exec error" /\ faulted
    /\ \E i, j \in 1..Len(log) :
          i < j /\ log[i].err = "" /\ log[i].op \in {"CREATE", "RENAME"} /\ log[j].err # ""

(* C2: when AutoMigrate returns a schema conflict or the policy error, the *)
(* schema objects of the database and their SQL are those before the call, *)
(* whatever other statements the call applied first.                       *)
C2_ConflictSafety ==
    (Done /\ result \in {"conflict", "TableDeletionNotAllowed"}) =>
        SchemaOf(db) = SchemaOf(pre)

(* The policy error is returned after the call has applied a statement. *)
C2_Witness ==
    Done /\ result = "TableDeletionNotAllowed" /\ Applied(log)

(* C3: a successful AutoMigrate with allowTableDeletes = true is followed  *)
(* by a successful Verify of the same target, for every well-formed target *)
(* and every order of its statements.                                      *)
C3_VerifyAfterAutoMigrate ==
    (Done /\ result = "ok" /\ allowTableDeletes /\ WellFormedTarget /\ verified # "none")
        => verified = "ok"

(* C4: an AutoMigrate that directly follows a successful one with the same *)
(* target and policy sends no statement and leaves the database as it is.  *)
C4_SecondRunIsNoOp ==
    (Done /\ run = 2 /\ prevResult = "ok" /\ ~faulted /\ WellFormedTarget)
        => (result = "ok" /\ log = <<>> /\ db = pre)

(* The database before the call matches the target: every statement of the *)
(* target has an equivalent object and there is no other object.           *)
Matches ==
    /\ \A i, j \in 1..Len(schema) : SameName(schema[i], schema[j]) => i = j
    /\ \A s \in Target : \E r \in pre : SameName(r.sql, s) /\ EquivalentDef(r.sql, s)
    /\ \A r \in pre : \E s \in Target : SameName(r.sql, s)

(* C5: on a database that matches the target AutoMigrate sends no create,  *)
(* drop or rebuild statement and returns success (the driver not failing   *)
(* the catalog read or the commit).                                        *)
C5_NoOpOnMatch ==
    (Done /\ ~faulted /\ Matches) => (result = "ok" /\ log = <<>> /\ db = pre)

(* A matching database whose stored definition is not the target's text. *)
C5_Witness ==
    /\ Done /\ ~faulted /\ Matches /\ result = "ok"
    /\ \E r \in pre : \E s \in Target : SameName(r.sql, s) /\ r.sql # s

(* The table named by the target statement s was rebuilt for column        *)
(* reorder by this call: its rename to the temporary name was applied.     *)
WasRebuilt(n) ==
    \E j \in 1..Len(log) :
        log[j].op = "RENAME" /\ log[j].err = "" /\ ToLower(log[j].name) = ToLower(n)

(* C6: after a successful AutoMigrate that rebuilt table T for column      *)
(* reorder, every index and trigger of the target on T is in the database  *)
(* with the SQL of its target statement, wherever it stands in the stream. *)
C6_DependentsRecreated ==
    (Done /\ result = "ok" /\ WellFormedTarget) =>
        \A s \in Target :
            (s.type \in {"INDEX", "TRIGGER"} /\ WasRebuilt(s.tbl)) =>
                \E x \in db : x.sql = s

(* C7: in the statements a call has sent, no applied CREATE INDEX or       *)
(* CREATE TRIGGER comes before the applied CREATE TABLE of its table, and  *)
(* no applied DROP TABLE comes before the drop of an index or trigger the  *)
(* database held on that table.                                            *)
C7_Ordering ==
    \A i, j \in 1..Len(log) : i < j =>
        /\ ~ /\ log[i].op = "CREATE" /\ log[i].type \in {"INDEX", "TRIGGER"} /\ log[i].err = ""
              /\ log[j].op = "CREATE" /\ log[j].type = "TABLE" /\ log[j].err = ""
              /\ ToLower(log[j].name) = ToLower(log[i].tbl)
        /\ ~ /\ log[i].op = "DROP" /\ log[i].type = "TABLE" /\ log[i].err = ""
              /\ log[j].op = "DROP" /\ log[j].type \in {"INDEX", "TRIGGER"}
              /\ \E r \in pre : /\ r.sql.type = log[j].type
                                 /\ ToLower(r.sql.name) = ToLower(log[j].name)
                                 /\ ToLower(r.sql.tbl) = ToLower(log[i].name)

(* No table of the target meets a table of the database before the call    *)
(* that has another set of columns.                                        *)
NoTableConflict ==
    \A s \in Target : \A r \in pre :
        (s.type = "TABLE" /\ r.sql.type = "TABLE" /\ SameName(r.sql, s)) =>
            ColSet(r.sql) = ColSet(s)

(* Nothing else ends the call: the driver fails nothing, the target names  *)
(* no object twice, no table conflicts, the engine rejects no statement.   *)
NoOtherFailure ==
    /\ ~faulted
    /\ ~HasDuplicateName(schema)
    /\ NoTableConflict
    /\ result # "exec error"

IndexesOn(d, t) ==
    {x \in d : x.sql.type = "INDEX" /\ ToLower(x.sql.tbl) = ToLower(t.name)}

ReorderPairs ==
    {p \in pre \X Target : SameName(p[1].sql, p[2]) /\ ReorderOnly(p[1].sql, p[2])}

(* The database differs from the target by the column order of tables only. *)
ReorderIsOnlyDifference ==
    /\ ~HasDuplicateName(schema)
    /\ ReorderPairs # {}
    /\ \A s \in Target : \E r \in pre :
           SameName(r.sql, s) /\ (EquivalentDef(r.sql, s) \/ ReorderOnly(r.sql, s))
    /\ \A r \in pre : \E s \in Target : SameName(r.sql, s)

(* C10: with allowTableDeletes false, a table that differs from the target *)
(* by column order only is never listed in TableDeletionNotAllowed; after  *)
(* a success it has the target's definition and its rows; and when column  *)
(* order is the only difference and the driver fails nothing, the call     *)
(* rebuilds the table and succeeds.                                        *)
C10_ReorderAllowed ==
    (Done /\ ~allowTableDeletes) =>
        /\ \A p \in ReorderPairs :
              /\ p[1].sql.name \notin ListedTables
              /\ p[2].name \notin ListedTables
              /\ result = "ok" =>
                    /\ WasRebuilt(p[2].name)
                    /\ \E x \in db : x.sql = p[2] /\ x.rows = p[1].rows
        /\ (ReorderIsOnlyDifference /\ ~faulted) => result = "ok"

(* A reorder-only table rebuilt under the policy, with success. *)
C10_Witness ==
    /\ Done /\ ~allowTableDeletes /\ ~faulted /\ ReorderIsOnlyDifference
    /\ result = "ok"
    /\ \E p \in ReorderPairs : WasRebuilt(p[2].name) /\ p[1].rows # {}

(* The tables of the database before the call whose name the target gives  *)
(* to an index, view or trigger and to no table.                           *)
CrossTypeTables ==
    {r \in TablesAbsentFromTarget :
        \E s \in Target : s.type # "TABLE" /\ SameName(s, r.sql)}

C12_ConflictBeforePolicy ==
    (Done /\ ~allowTableDeletes /\ ~NoTableConflict /\ TablesAbsentFromTarget # {}) =>
        /\ result \notin {"ok", "TableDeletionNotAllowed"}
        /\ (~faulted /\ ~HasDuplicateName(schema) /\ result # "exec error")
               => result = "conflict"

(* The conflict is returned after the loop has already recorded a table    *)
(* the policy keeps it from dropping.                                      *)
C12_Witness ==
    /\ Done /\ ~allowTableDeletes /\ ~NoTableConflict /\ TablesAbsentFromTarget # {}
    /\ result = "conflict"
    /\ Len(tablesToDropIfDisallowed) > 0

(* C13: when AutoMigrate returns a table conflict, it has sent no          *)
(* statement to the database before returning.                             *)
C13_NoStatementBeforeConflict ==
    (Done /\ result \in {"conflict", "conflicts"}) => log = <<>>

(* The tables of the target that conflict with the table of that name in   *)
(* the database before the call: the columns differ by name or by type.    *)
ConflictingTables ==
    {s \in Target : s.type = "TABLE" /\
        \E r \in pre : r.sql.type = "TABLE" /\ r.sql.name = s.name /\ ColSet(r.sql) # ColSet(s)}

EntryName(e) == IF "ObjectName" \in DOMAIN e THEN e.ObjectName ELSE e.ElementName

(* The summary message of the aggregate error: the number of entries when  *)
(* there are several, and the first entry.                                 *)
ErrSchemaConflictsError(conflicts) ==
    IF Len(conflicts) = 0 THEN [count |-> 0, first |-> "no schema conflicts"]
    ELSE IF Len(conflicts) = 1 THEN [count |-> 1, first |-> EntryName(conflicts[1])]
    ELSE [count |-> Len(conflicts), first |-> EntryName(conflicts[1])]

(* C14: the conflict error AutoMigrate returns has an entry for every      *)
(* conflicting table of the two schemas, and its summary shows the first   *)
(* entry.                                                                  *)
C14_AllConflictsReported ==
    (Done /\ result \in {"conflict", "conflicts"}) =>
        /\ \A s \in ConflictingTables :
               \E j \in 1..Len(tableConflicts) : EntryName(tableConflicts[j]) = s.name
        /\ ErrSchemaConflictsError(tableConflicts).first = EntryName(tableConflicts[1])

(* C15: after a successful call that rebuilt a table for column reorder,   *)
(* the table holds exactly the rows it held before the call, each row with *)
(* the value it had under every column name.                               *)
C15_ReorderKeepsRows ==
    (Done /\ result = "ok") =>
        \A p \in ReorderPairs : WasRebuilt(p[2].name) =>
            \E x \in db : /\ x.sql.type = "TABLE"
                          /\ SameName(x.sql, p[2])
                          /\ ColOrder(x.sql) = ColOrder(p[2])
                          /\ x.rows = p[1].rows
                          /\ Cardinality(x.rows) = Cardinality(p[1].rows)

(* A table with a row was rebuilt and the copy statement was applied. *)
C15_Witness ==
    /\ Done /\ result = "ok"
    /\ \E p \in ReorderPairs :
          /\ WasRebuilt(p[2].name)
          /\ p[1].rows # {}
          /\ \E j \in 1..Len(log) :
                log[j].op = "COPY" /\ log[j].err = "" /\ log[j].name = p[2].name

(* Every statement of the stream has an object of its name (as spelled) in *)
(* the database with an equal definition, tables by their columns in order *)
(* with normalized types, other objects by canonical SQL; and the database *)
(* holds no object whose name the stream does not define.                  *)
DatabaseIsTheTarget ==
    /\ \A s \in Target : \E r \in db : r.sql.name = s.name /\ EquivalentDef(r.sql, s)
    /\ \A r \in db : \E s \in Target : s.name = r.sql.name

-----------------------------------------------------------------------------
(* Vocabulary of the MigrateFunc properties, stated on the calls the log   *)
(* holds: control has left the migration call; a call was made and         *)
(* succeeded; a call was made and failed.                                  *)
Left == pc \in {"done", "panicked"}
Succeeded(c) == \E j \in 1..Len(log) : log[j].op = c /\ log[j].err = ""
Failed(c) == \E j \in 1..Len(log) : log[j].op = c /\ log[j].err # ""

(* C17: on every exit path of a migration that turned foreign-key          *)
(* enforcement off (success, error of the callback, failed restore step,   *)
(* failed integrity check, panic inside the transaction), enforcement is   *)
(* on again when control leaves the migration call, unless the statement   *)
(* that turns it on was itself failed by the driver.                       *)
C17_ForeignKeysRestoredOnEveryExit ==
    (Left /\ Succeeded("PRAGMA foreign_keys=OFF") /\ ~Failed("PRAGMA foreign_keys=ON"))
        => foreignKeys

(* The transaction of the call was committed: AutoMigrate returned nil,    *)
(* or the COMMIT of MigrateFunc's transaction succeeded.                   *)
Committed == pc = "done" /\ (result = "ok" \/ Succeeded("COMMIT"))

(* C18: a transaction that commits a change has run the foreign-key        *)
(* consistency check first and the check reported no row; when the check   *)
(* reports a violation the transaction is rolled back, so neither a schema *)
(* change nor the version increment of the migration is committed.         *)
C18_ForeignKeyCheckBeforeCommit ==
    /\ (Committed /\ db # pre) =>
           (Succeeded("PRAGMA foreign_key_check") /\ mErrors = {})
    /\ (Left /\ mErrors # {}) => db = pre

(* The changes of the migration are in the database: the version is the   *)
(* one before the call plus one, and every table of migrateTables has the  *)
(* definition of its new_ copy.                                            *)
MigrationInPlace ==
    /\ \E o \in FindType(pre, "TABLE", "version") : \E n \in FindType(db, "TABLE", "version") :
           /\ o.rows # {}
           /\ n.rows = {[version |-> x.version + 1] : x \in o.rows}
    /\ \A j \in 1..Len(migrateTables) :
           \E r \in FindType(db, "TABLE", migrateTables[j]) :
               r.sql.cols = Rebuilt(migrateTables[j], fn).cols

(* C19: when the transaction of the migration committed and the statement  *)
(* that turns foreign-key enforcement on again failed, the changes of the  *)
(* migration are still in the database and the caller gets the error of    *)
(* the failed restore.                                                     *)
C19_RestoreFailureAfterCommit ==
    (pc = "done" /\ Succeeded("COMMIT") /\ Failed("PRAGMA foreign_keys=ON")) =>
        /\ MigrationInPlace
        /\ result = "unable to turn foreign keys back on after sucessful migration"

C19_Witness ==
    /\ pc = "done"
    /\ Succeeded("COMMIT")
    /\ Failed("PRAGMA foreign_keys=ON")
    /\ migrateTables # <<>>
    /\ MigrationInPlace
    /\ result = "unable to turn foreign keys back on after sucessful migration"

(* C20: a target stream that defines the same object name twice makes the *)
(* call fail with the duplicate-object error before any statement is sent, *)
(* so the database is unchanged and the later definition does not replace  *)
(* the earlier one (unless the read of the catalog failed first).          *)
C20_DuplicateObjectRejected ==
    (Done /\ HasDuplicateName(schema)) =>
        /\ log = <<>>
        /\ db = pre
        /\ ~faulted => result = "duplicate object name"

-----------------------------------------------------------------------------
(* A table of the database and the definition of the same table in the     *)
(* target with the same columns: the same names, each with the same type.  *)
SameColumnsPairs ==
    {p \in pre \X Target :
        /\ p[1].sql.type = "TABLE" /\ p[2].type = "TABLE"
        /\ p[1].sql.name = p[2].name
        /\ {p[1].sql.cols[j] : j \in 1..Len(p[1].sql.cols)}
             = {p[2].cols[j] : j \in 1..Len(p[2].cols)}}

(* C21: for two definitions of one table with the same columns the verdict *)
(* of the comparison is reorder-needed exactly when the declared order     *)
(* differs and exact match when it is the same, and the call reports no    *)
(* conflict for the table.                                                 *)
C21_SameColumnsVerdict ==
    (pc # "idle" /\ ~HasDuplicateName(schema)) =>
        \A p \in SameColumnsPairs :
            /\ compareTableStatements(p[1].sql, p[2]) =
                   IF ColOrder(p[1].sql) = ColOrder(p[2])
                   THEN statementMatchExact
                   ELSE statementMatchReorderNeeded
            /\ \A j \in 1..Len(tableConflicts) : EntryName(tableConflicts[j]) # p[2].name

(* The elements of a list, as a set. *)
Elems(l) == {l[j] : j \in 1..Len(l)}

(* A table of the database and its definition in the target that have the  *)
(* same columns, the same set of primary-key columns, and unique           *)
(* constraints of the same names over the same sets of columns.            *)
SameKeysPairs ==
    {p \in SameColumnsPairs :
        /\ p[1].sql.cols = p[2].cols
        /\ Elems(PrimaryKey(p[1].sql)) = Elems(PrimaryKey(p[2]))
        /\ DOMAIN UniqueConstraints(p[1].sql) = DOMAIN UniqueConstraints(p[2])
        /\ \A n \in DOMAIN UniqueConstraints(p[2]) :
               Elems(UniqueConstraints(p[1].sql)[n]) = Elems(UniqueConstraints(p[2])[n])}

(* C22: the primary-key column list and the column list of each unique     *)
(* constraint are compared as sets: two definitions that list the same     *)
(* columns in a different order give no PrimaryKeyMismatch and no          *)
(* UniqueConstraintMismatch.                                               *)
C22_KeyColumnsComparedAsSets ==
    Done => \A p \in SameKeysPairs :
        /\ CompareTableDefinitions(p[2], p[1].sql)
               \notin {"PrimaryKeyMismatch", "UniqueConstraintMismatch"}
        /\ \A j \in 1..Len(tableConflicts) :
               EntryName(tableConflicts[j]) = p[2].name =>
                   tableConflicts[j].ConflictType
                       \notin {"PrimaryKeyMismatch", "UniqueConstraintMismatch"}

-----------------------------------------------------------------------------
(* The buckets IdentifySchemaDifferences makes of the two schemas of the   *)
(* call, and the keys (type and name) of a set of definitions.             *)
Buckets == IdentifySchemaDifferences(ParseSchemaReader(schema), FetchDBSchema(pre))
Keys(S) == {<<x.type, x.name>> : x \in S}
DesiredKeys == Keys(ParseSchemaReader(schema))
CurrentKeys == Keys(FetchDBSchema(pre))
CompareKeys == {<<p[1].type, p[1].name>> : p \in Buckets.ToCompare}

(* A name the target uses for one type only and the database for another  *)
(* type only.                                                              *)
CrossTypeNames ==
    {p \in ParseSchemaReader(schema) \X FetchDBSchema(pre) :
        /\ p[1].name = p[2].name /\ p[1].type # p[2].type
        /\ ~\E x \in ParseSchemaReader(schema) : x.name = p[1].name /\ x.type # p[1].type
        /\ ~\E x \in FetchDBSchema(pre) : x.name = p[2].name /\ x.type # p[2].type}

(* C23: for each object type every name of desired or current is in       *)
(* exactly one of ToCreate (only in desired), ToDelete (only in current)   *)
(* and ToCompare (in both, paired with its own type), and a name used by   *)
(* different types in the two schemas gives a create of the desired type   *)
(* and a drop of the current type.                                         *)
C23_BucketsPartition ==
    (pc # "idle" /\ result # "fetch error") =>
        /\ Keys(Buckets.ToCreate) = DesiredKeys \ CurrentKeys
        /\ Keys(Buckets.ToDelete) = CurrentKeys \ DesiredKeys
        /\ CompareKeys = DesiredKeys \cap CurrentKeys
        /\ \A p \in Buckets.ToCompare : p[1].type = p[2].type /\ p[1].name = p[2].name
        /\ Keys(Buckets.ToCreate) \cap Keys(Buckets.ToDelete) = {}
        /\ Keys(Buckets.ToCreate) \cap CompareKeys = {}
        /\ Keys(Buckets.ToDelete) \cap CompareKeys = {}
        /\ \A p \in CrossTypeNames :
               /\ p[1] \in Buckets.ToCreate
               /\ p[2] \in Buckets.ToDelete
               /\ (pc = "planned" /\ log = <<>>) =>
                      (p[1] \in diffs.ToCreate /\ p[2] \in diffs.ToDelete)

C23_Witness ==
    /\ pc = "planned" /\ log = <<>>
    /\ CrossTypeNames # {}
    /\ Buckets.ToCompare # {}
    /\ \E p \in CrossTypeNames : p[1] \in diffs.ToCreate /\ p[2] \in diffs.ToDelete

-----------------------------------------------------------------------------
(* An index, view or trigger of the database paired with the definition of *)
(* the same type and name in the target.                                   *)
DependentPairs ==
    {p \in pre \X Target :
        /\ p[2].type # "TABLE"
        /\ p[1].sql.type = p[2].type
        /\ p[1].sql.name = p[2].name}

(* The statements of the call that were applied to the object named n, and *)
(* whether the call dropped, renamed or created the table named t.         *)
StatementsOn(n) ==
    {j \in 1..Len(log) : log[j].err = "" /\ log[j].type # "TABLE" /\ log[j].name = n}
TableTouched(t) ==
    t # "" /\ \E j \in 1..Len(log) :
        /\ log[j].err = "" /\ log[j].type = "TABLE"
        /\ (ToLower(log[j].name) = ToLower(t) \/ ToLower(log[j].tbl) = ToLower(t))

-----------------------------------------------------------------------------
(* Objects of a database whose name differs from the name of an equivalent *)
(* target definition by letter case only.                                  *)
CaseVariantPairs(d) ==
    {p \in d \X Target :
        /\ SameName(p[1].sql, p[2])
        /\ p[1].sql.name # p[2].name
        /\ EquivalentDef([p[1].sql EXCEPT !.name = p[2].name], p[2])}

(* The database is the target up to the letter case of the names. *)
DatabaseIsTheTargetIgnoringCase ==
    /\ \A i, j \in 1..Len(schema) : SameName(schema[i], schema[j]) => i = j
    /\ \A s \in Target : \E r \in db :
           SameName(r.sql, s) /\ EquivalentDef([r.sql EXCEPT !.name = s.name], s)
    /\ \A r \in db : \E s \in Target : SameName(r.sql, s)

(* C25: an object whose name in the database differs by letter case only   *)
(* from a name of the target is the same object for AutoMigrate (no        *)
(* statement creates or drops it) and for Verify (a database that is the   *)
(* target up to the case of the names verifies).                           *)
C25_NamesMatchedIgnoringCase ==
    /\ Done => \A p \in CaseVariantPairs(pre) :
           ~\E j \in 1..Len(log) :
               log[j].err = "" /\ ToLower(log[j].name) = ToLower(p[2].name)
    /\ (verified # "none" /\ DatabaseIsTheTargetIgnoringCase) => verified = "ok"

(* The range over the iterator of a RowsSeq is over. *)
IterationEnded == pc \in {"ended", "empty"}

(* C26: whichever way an iteration of a RowsSeq ends (the rows are          *)
(* exhausted, the consumer stops early, a scan fails, the driver reports an *)
(* error after the last row) the cursor of the RowsSeq, its only one, is    *)
(* not open any more, and Err() is non-nil when a driver call of that       *)
(* iteration failed; an iteration started after an error yields nothing.    *)
C26_CursorReleasedWhenIterationEnds ==
    IterationEnded =>
        /\ cursor.state # "open"
        /\ faulted => Err # ""
        /\ pc = "empty" => yielded = 0

(* An iteration handed rows to the consumer, then a scan failed with rows   *)
(* left: the cursor is closed and Err() reports the scan error.             *)
C26_Witness ==
    /\ pc = "ended"
    /\ yielded > 0
    /\ cursor.left > 0
    /\ cursor.state = "closed"
    /\ Err = "scan error"

(* The call has returned after database/sql acted on the cancellation of   *)
(* its context, and the driver failed no statement of it.                   *)
CancelledDuringCall == Done /\ ctx = "txdone" /\ ~faulted

(* C27: when the context is cancelled while AutoMigrate runs, no statement  *)
(* is sent after the rollback the cancellation causes, the database is what *)
(* it was before the call, and AutoMigrate returns the cancellation reason. *)
C27_CancellationRollsBackAndIsReturned ==
    CancelledDuringCall =>
        /\ \A j \in 1..Len(log) : log[j].op = "ROLLBACK" => j = Len(log)
        /\ db = pre
        /\ result = ErrCanceled

(* C28: the functions Migrate calls are those of successive versions, from *)
(* the version stored when it was called, each once; it returns nil only   *)
(* at a stored version the map has no function for; and a function that    *)
(* fails is the last one called, its error being what Migrate returns.     *)
C28_MigrateAppliesSuccessiveVersionsOnce ==
    /\ \A i \in 1..Len(applied) : applied[i] = GetVersion(pre).version + (i - 1)
    /\ (Done /\ result = "ok") => GetVersion(db).version \notin DOMAIN versions
    /\ \A i \in 1..Len(applied) :
           versions[applied[i]] = "fail" => (i = Len(applied) /\ result = "migration failed")

(* The rows of the version table of a database, none when it has no such   *)
(* table.                                                                  *)
VersionRows(d) == UNION {r.rows : r \in FindType(d, "TABLE", "version")}

(* The callback, the restore step and the foreign-key check of the         *)
(* migration succeeded and its transaction was committed.                  *)
MigrationCommitted ==
    /\ fn.outcome = "nil"
    /\ restore = ""
    /\ Succeeded("PRAGMA foreign_key_check")
    /\ mErrors = {}
    /\ Succeeded("COMMIT")

(* C29: when control has left a MigrationFunc built by MigrateFunc, the    *)
(* stored version is the one before the call plus one if the callback, the *)
(* restore step and the foreign-key check succeeded and the transaction    *)
(* was committed, and the one before the call in every other case; a       *)
(* COMMIT is only made after the three succeeded.                          *)
C29_VersionIncrementedIffCommitted ==
    Left =>
        /\ Succeeded("COMMIT") => MigrationCommitted
        /\ IF MigrationCommitted
           THEN /\ VersionRows(pre) # {}
                /\ VersionRows(db) = {[version |-> x.version + 1] : x \in VersionRows(pre)}
           ELSE VersionRows(db) = VersionRows(pre)

(* A migration that swapped tables has returned nil with the version       *)
(* raised by one.                                                          *)
C29_Witness ==
    /\ pc = "done"
    /\ result = "ok"
    /\ migrateTables # <<>>
    /\ MigrationCommitted
    /\ VersionRows(db) = {[version |-> x.version + 1] : x \in VersionRows(pre)}
    /\ VersionRows(db) # {}

(* The definitions of a stream. *)
DdlOnly(stream) ==
    SelectSeq(stream, LAMBDA st : st.type \in {"TABLE", "INDEX", "VIEW", "TRIGGER"})

(* C30: the SELECT, INSERT, UPDATE and DELETE statements of a target       *)
(* stream are never sent to the database; Verify answers what it answers   *)
(* for the definitions of the stream alone; and AutoMigrate on a database  *)
(* that holds exactly those definitions, none of them twice in the stream, *)
(* returns nil and sends nothing.                                          *)
C30_NonDdlStatementsSkipped ==
    /\ \A j \in 1..Len(log) : log[j].stmt.type \notin DmlTypes /\ log[j].op \notin DmlTypes
    /\ verified # "none" => verified = Verify(db, DdlOnly(schema))
    /\ (Done /\ run = 1 /\ ~faulted /\ ~HasDuplicateName(DdlOnly(schema))
          /\ Verify(pre, DdlOnly(schema)) = "ok") =>
           (result = "ok" /\ db = pre /\ log = <<>>)

(* A stream with a definition and a statement that is none was migrated    *)
(* to and verified.                                                        *)
C30_Witness ==
    /\ Done
    /\ result = "ok"
    /\ log # <<>>
    /\ verified = "ok"
    /\ \E j \in 1..Len(schema) : schema[j].type \in DmlTypes
    /\ \E j \in 1..Len(schema) : schema[j].type \notin DmlTypes

(* C31: what ExecTx hands to tx.Exec is a sequence of whole statements of  *)
(* the text, a CREATE TRIGGER statement among them being sent as one, from  *)
(* CREATE TRIGGER through END;, whatever the number of statements in its    *)
(* body; at the end all the statements of the text were sent.               *)
C31_TriggerSentAsOneStatement ==
    /\ \A j \in 1..Len(sent) : sent[j] = schema[j]
    /\ Done => sent = schema

(* The place of an object type in the order of the drops (dependents       *)
(* first) and in the order of the creates (bases first).                   *)
DropRank(ty) ==
    CASE ty = "TRIGGER" -> 1 [] ty = "VIEW" -> 2 [] ty = "INDEX" -> 3 [] OTHER -> 4
CreateRank(ty) ==
    CASE ty = "TABLE" -> 1 [] ty = "INDEX" -> 2 [] ty = "VIEW" -> 3 [] OTHER -> 4

(* C32: among the statements the planner variant of AutoMigrate sends in   *)
(* its transaction, the drops come in the order triggers, views, indexes,  *)
(* tables, the creates in the order tables, indexes, views, triggers, and  *)
(* no drop comes after a create.                                           *)
C32_DropsThenCreatesInOrder ==
    \A i, j \in 1..Len(log) :
        i < j =>
            /\ (log[i].op = "DROP" /\ log[j].op = "DROP") =>
                   DropRank(log[i].type) <= DropRank(log[j].type)
            /\ (log[i].op = "CREATE" /\ log[j].op = "CREATE") =>
                   CreateRank(log[i].type) <= CreateRank(log[j].type)
            /\ ~(log[i].op = "CREATE" /\ log[j].op = "DROP")

(* An index and its table were dropped, in that order, then a table was    *)
(* created, and the call returned nil.                                     *)
C32_Witness ==
    /\ Done
    /\ result = "ok"
    /\ Len(log) >= 3
    /\ log[1].op = "DROP" /\ log[1].type # "TABLE"
    /\ log[2].op = "DROP" /\ log[2].type = "TABLE"
    /\ log[3].op = "CREATE"
-----------------------------------------------------------------------------
(* The four groups of checks of CompareTableDefinitions, each by its own   *)
(* condition, and the group a conflict type belongs to.                    *)
ColumnCountDiffers(desired, current) == Len(desired.cols) # Len(current.cols)
SomeColumnDiffers(desired, current) ==
    \E j \in 1..Len(desired.cols) :
        /\ j <= Len(current.cols)
        /\ \/ desired.cols[j].name # current.cols[j].name
           \/ desired.cols[j].type # current.cols[j].type
           \/ IsPrimaryKey(desired, desired.cols[j].name)
                  # IsPrimaryKey(current, current.cols[j].name)
PrimaryKeyDiffers(desired, current) ==
    ~compareStringSlicesEquivalent(PrimaryKey(desired), PrimaryKey(current))
UniqueConstraintsDiffer(desired, current) ==
    LET dU == UniqueConstraints(desired)
        cU == UniqueConstraints(current)
    IN \/ DOMAIN dU # DOMAIN cU
       \/ \E n \in DOMAIN dU : ~compareStringSlicesEquivalent(dU[n], cU[n])
FirstFailingCheck(desired, current) ==
    IF ColumnCountDiffers(desired, current) THEN "count"
    ELSE IF SomeColumnDiffers(desired, current) THEN "column"
    ELSE IF PrimaryKeyDiffers(desired, current) THEN "primary key"
    ELSE IF UniqueConstraintsDiffer(desired, current) THEN "unique"
    ELSE "none"
CheckOf(conflictType) ==
    CASE conflictType = "ColumnCountMismatch" -> "count"
      [] conflictType \in {"ColumnNameMismatch", "ColumnTypeMismatch",
                           "ColumnPrimaryKeyMismatch"} -> "column"
      [] conflictType = "PrimaryKeyMismatch" -> "primary key"
      [] conflictType \in {"UniqueConstraintCountMismatch", "MissingUniqueConstraint",
                           "UniqueConstraintMismatch", "ExtraUniqueConstraint"} -> "unique"
      [] OTHER -> "none"

(* The tables the call compared: the definition of the target and the      *)
(* table of that name in the database before the call.                     *)
ComparedTables == {p \in Buckets.ToCompare : p[1].type = "TABLE"}
ConflictsOf(n) ==
    {tableConflicts[j] : j \in {i \in 1..Len(tableConflicts) :
                                   EntryName(tableConflicts[i]) = n}}

(* C33: the conflict reported for a table is the first failing check in    *)
(* the order column count, per-column attributes, primary key, unique      *)
(* constraints; when the two definitions differ in number of columns it is *)
(* ColumnCountMismatch with expected = the desired count and actual = the  *)
(* current count, whatever else differs.                                   *)
C33_ConflictIsFirstFailingCheck ==
    (Done /\ tableConflicts # <<>>) => \A p \in ComparedTables :
        /\ FirstFailingCheck(p[1], p[2]) # "none" =>
               \E c \in ConflictsOf(p[1].name) : TRUE
        /\ \A c \in ConflictsOf(p[1].name) :
               /\ CheckOf(c.ConflictType) = FirstFailingCheck(p[1], p[2])
               /\ ColumnCountDiffers(p[1], p[2]) =>
                      /\ c.ConflictType = "ColumnCountMismatch"
                      /\ c.ExpectedValue = ToString(Len(p[1].cols))
                      /\ c.ActualValue = ToString(Len(p[2].cols))

(* A table reported for its column count although its columns, its primary *)
(* key and its unique constraints differ too.                              *)
C33_Witness ==
    /\ Done
    /\ \E p \in ComparedTables :
          /\ ColumnCountDiffers(p[1], p[2])
          /\ SomeColumnDiffers(p[1], p[2])
          /\ PrimaryKeyDiffers(p[1], p[2])
          /\ UniqueConstraintsDiffer(p[1], p[2])
          /\ Len(p[1].cols) = 3 /\ Len(p[2].cols) = 2
          /\ \E c \in ConflictsOf(p[1].name) :
                /\ c.ConflictType = "ColumnCountMismatch"
                /\ c.ExpectedValue = "3" /\ c.ActualValue = "2"

-----------------------------------------------------------------------------
(* The commits and rollbacks sent so far, and whether BeginTxx succeeded.  *)
EndsSent == {j \in 1..Len(log) : log[j].op \in {"COMMIT", "ROLLBACK"}}
TransactionBegan == \E j \in 1..Len(log) : log[j].op = "BEGIN" /\ log[j].err = ""
TransactionOver == pc \in {"fkon", "panicked", "done"}

(* The step that ends the transaction, given what fn did (txErr). *)
TransactionEndsAsFnDid ==
    pc = "txend" =>
        /\ Len(log') = Len(log) + 1
        /\ log'[Len(log')].op = "COMMIT" <=> txErr.kind = "nil"
        /\ txErr.kind \in {"error", "panic"} => log'[Len(log')].op = "ROLLBACK"
        /\ txErr = PanicOf("Error") => pc' = "fkon" /\ txErr' = ErrOf("Error")
        /\ (txErr.kind = "panic" /\ txErr.value # "Error") =>
               pc' = "panicked" /\ result' = "panic"

(* C34: a call of the transaction wrapper that began a transaction ends it *)
(* with exactly one of commit or rollback: commit iff the callback         *)
(* returned nil without panicking, rollback if it returned an error or     *)
(* panicked; a panic carrying Error becomes the returned error, any other  *)
(* panic propagates after the rollback.                                    *)
C34_TransactionEndedExactlyOnce ==
    /\ [](/\ Cardinality(EndsSent) <= 1
          /\ ~TransactionBegan => EndsSent = {}
          /\ (TransactionBegan /\ TransactionOver) => Cardinality(EndsSent) = 1
          /\ (TransactionBegan /\ ~TransactionOver) => EndsSent = {})
    /\ [][TransactionEndsAsFnDid]_vars

(* MustExec panicked with Error inside the callback: the transaction was   *)
(* rolled back once and the error is about to be returned.                 *)
C34_Witness ==
    /\ pc = "fkon"
    /\ TransactionBegan
    /\ txErr = ErrOf("Error")
    /\ \E j \in EndsSent : log[j].op = "ROLLBACK"
    /\ Cardinality(EndsSent) = 1

-----------------------------------------------------------------------------
(* The drops whose object was absent when the drop was sent. *)
DropsOfAbsentObjects ==
    {j \in 1..Len(log) : log[j].op = "DROP" /\ log[j].err = NoSuch(log[j].type)}

(* C35: every drop AutoMigrate sends tolerates the object being absent at  *)
(* that moment: a not-found error on a drop is taken as success and does   *)
(* not abort the migration.                                                *)
C35_DropOfAbsentObjectTolerated ==
    Done => \A j \in DropsOfAbsentObjects : ~(j = Len(log) /\ result = "exec error")

-----------------------------------------------------------------------------
(* The statements of restore in the log: the drops, the renames and the    *)
(* dependents created again (the callback creates tables only).            *)
RestoreStatements ==
    {j \in 1..Len(log) :
        \/ log[j].op \in {"DROP", "RENAME"}
        \/ log[j].op = "CREATE" /\ log[j].type # "TABLE"}
SwapsOf(t) ==
    [drops |-> {j \in RestoreStatements : log[j].op = "DROP" /\ log[j].name = t},
     renames |-> {j \in RestoreStatements :
                     log[j].op = "RENAME" /\ log[j].name = "new_" \o t /\ log[j].tbl = t}]

(* A call of restore after the first: it returns what the first returned   *)
(* and sends nothing.                                                      *)
LaterRestoreCallRepeatsNothing ==
    (pc = "restore" /\ restore # "unset") =>
        /\ log' = log
        /\ db' = db
        /\ restore' = restore
        /\ txErr' = IF restore = "" THEN NilErr ELSE ErrOf(restore)

(* C36: the restore step executes its statements exactly once per          *)
(* successful migration, whether the callback calls restore zero, one or   *)
(* several times; a later call returns the result of the first without     *)
(* repeating any statement.                                                *)
C36_RestoreRunsExactlyOnce ==
    /\ [](/\ \A i, j \in RestoreStatements : log[i] = log[j] => i = j
          /\ MigrationCommitted =>
                 \A n \in 1..Len(migrateTables) :
                     /\ Cardinality(SwapsOf(migrateTables[n]).drops) = 1
                     /\ Cardinality(SwapsOf(migrateTables[n]).renames) = 1)
    /\ [][LaterRestoreCallRepeatsNothing]_vars

(* A committed migration of a table whose callback called restore twice    *)
(* before MigrateFunc called it again.                                     *)
C36_Witness ==
    /\ MigrationCommitted
    /\ fn.callsRestore = 2
    /\ migrateTables # <<>>
    /\ Cardinality(SwapsOf(migrateTables[1]).drops) = 1
    /\ \E j \in RestoreStatements : log[j].op = "CREATE"

-----------------------------------------------------------------------------
(* The indexes the database had on table t before the call, and whether    *)
(* the table t of the database now has all the columns of index ix.        *)
IndexesBefore(t) == {r.sql : r \in {x \in pre : x.sql.type = "INDEX" /\ x.sql.tbl = t}}
FitsNewTable(ix, t) ==
    \E r \in FindType(db, "TABLE", t) : ColNames(ix) \subseteq ColNames(r.sql)

(* C37: after a MigrationFunc has migrated a table of migrateTables, every *)
(* index of the old table whose columns all exist in the new table exists  *)
(* again, and an index that names a removed column is not recreated: it is *)
(* left out, and restore does not fail on it.                              *)
C37_IndexesOfMigratedTableRestored ==
    /\ restore # "no such column"
    /\ MigrationCommitted =>
           \A n \in 1..Len(migrateTables) : \A ix \in IndexesBefore(migrateTables[n]) :
               (\E r \in FindType(db, "INDEX", ix.name) : r.sql = ix)
                   <=> FitsNewTable(ix, migrateTables[n])

-----------------------------------------------------------------------------
(* C38: the table list of ErrTableDeletionNotAllowed names each table that *)
(* would have to be dropped exactly once, also a table blocked because a   *)
(* non-table object of the target has its name.                            *)
C38_BlockedTablesListedOnce ==
    (Done /\ result = "TableDeletionNotAllowed") =>
        \A i, j \in 1..Len(tablesToDropIfDisallowed) :
            tablesToDropIfDisallowed[i] = tablesToDropIfDisallowed[j] => i = j

-----------------------------------------------------------------------------
(* The tables a reorder rebuild was begun for in this call (the rename to  *)
(* the temporary name was sent), and the objects of the database under a   *)
(* temporary reorder name.                                                 *)
ReorderBegunFor ==
    {log[j].name : j \in {i \in 1..Len(log) :
        log[i].op = "RENAME" /\ log[i].tbl = log[i].name \o tempTableNameSuffix}}
TemporaryReorderTables ==
    {r \in db : \E s \in pre : r.sql.name = s.sql.name \o tempTableNameSuffix}

(* C39: after AutoMigrate returns, with success or with an error at any    *)
(* step of a reorder rebuild, the database has no temporary reorder table  *)
(* and the rebuilt table exists under its original name.                   *)
C39_NoTemporaryTableAfterReturn ==
    Done =>
        /\ TemporaryReorderTables = {}
        /\ \A n \in ReorderBegunFor : FindType(db, "TABLE", n) # {}

(* The copy of a reorder rebuild failed, with the old table under its      *)
(* temporary name at that moment, and the call has returned.               *)
C39_Witness ==
    /\ Done
    /\ result = "exec error"
    /\ ReorderBegunFor # {}
    /\ \E j \in 1..Len(log) : log[j].op = "COPY" /\ log[j].err # ""
    /\ TemporaryReorderTables = {}
    /\ \A n \in ReorderBegunFor : FindType(db, "TABLE", n) # {}

-----------------------------------------------------------------------------
(* C40: Migrate terminates for every versions map: a function that returns *)
(* success without changing the stored version is not applied again, the   *)
(* loop sees that the version did not advance and returns.                 *)
C40_SameVersionNotAppliedAgain ==
    \A i \in 1..Len(applied) : \A j \in 1..Len(applied) :
        applied[i] = applied[j] => i = j

====
